---- MODULE Spec2Model ----
(***************************************************************************)
(* Model of the enhanced packing engine of ShipWise_Backend                *)
(* (src/unnamed/part_003, second half): Advanced3DBinPacker and            *)
(* calculateOptimalPacking.                                                *)
(*                                                                         *)
(* Numbers.  The engine computes with JavaScript doubles.  Dimensions,     *)
(* weights, quantities and costs are integers here, so every Math.floor of *)
(* a quotient is \div.  Ratios (utilisation, scores, costs) are held in    *)
(* fixed point with Scale units per 1; coordinates of the centre of mass   *)
(* are held with PosScale units per unit of length.                        *)
(*                                                                         *)
(* Objects.  Carton objects live in `heap`, addressed by reference, so     *)
(* that a shallow copy of an array ([...cartons]) shares its objects and a *)
(* spread copy of an object ({...carton}) does not.                        *)
(***************************************************************************)
EXTENDS Integers, Sequences, FiniteSets, TLC

\* fixed-point resolution of ratios and of coordinates
Scale == 100 * 100
PosScale == 10 * 100

\* bounds of the model: the longest product list and carton catalog tried
MaxProducts == 2
MaxCartons == 2
MaxClock == 1

Min2(a, b) == IF a <= b THEN a ELSE b
Max2(a, b) == IF a >= b THEN a ELSE b
CeilDiv(a, b) == (a + b - 1) \div b

RECURSIVE ISqrtIn(_, _, _)
ISqrtIn(x, lo, hi) ==
    IF lo >= hi THEN lo
    ELSE LET mid == (lo + hi + 1) \div 2
         IN  IF mid * mid <= x THEN ISqrtIn(x, mid, hi) ELSE ISqrtIn(x, lo, mid - 1)

\* Math.sqrt, rounded down to an integer
Sqrt(x) == ISqrtIn(x, 0, 46340)

RECURSIVE SumSeq(_)
SumSeq(s) ==
    IF Len(s) = 0 THEN 0
    ELSE IF Len(s) = 1 THEN s[1]
    ELSE LET half == Len(s) \div 2
         IN  SumSeq(SubSeq(s, 1, half)) + SumSeq(SubSeq(s, half + 1, Len(s)))

\* the value standing for JavaScript null
None == [none |-> TRUE]

----------------------------------------------------------------------------
(* Product and Carton                                                      *)

\* Product.volume
ProductVolume(p) == p.length * p.breadth * p.height

\* Carton.volume
CartonVolume(c) == c.length * c.breadth * c.height

----------------------------------------------------------------------------
(* Advanced3DBinPacker: orientations and the single-carton fit             *)

\* getAllOrientations with canRotate ignored
GetAllOrientationsUnlocked(product) ==
    << [dims |-> <<product.length, product.breadth, product.height>>, index |-> 0],
       [dims |-> <<product.length, product.height, product.breadth>>, index |-> 1],
       [dims |-> <<product.breadth, product.length, product.height>>, index |-> 2],
       [dims |-> <<product.breadth, product.height, product.length>>, index |-> 3],
       [dims |-> <<product.height, product.length, product.breadth>>, index |-> 4],
       [dims |-> <<product.height, product.breadth, product.length>>, index |-> 5] >>

\* getAllOrientations: the six permutations, or orientation 0 alone
getAllOrientations(product) ==
    LET orientations == <<
            [dims |-> <<product.length, product.breadth, product.height>>, index |-> 0],
            [dims |-> <<product.length, product.height, product.breadth>>, index |-> 1],
            [dims |-> <<product.breadth, product.length, product.height>>, index |-> 2],
            [dims |-> <<product.breadth, product.height, product.length>>, index |-> 3],
            [dims |-> <<product.height, product.length, product.breadth>>, index |-> 4],
            [dims |-> <<product.height, product.breadth, product.length>>, index |-> 5] >>
    IN  IF product.canRotate THEN orientations ELSE <<orientations[1]>>

\* canFitOrientation
canFitOrientation(product, carton, orientationIndex) ==
    LET d == getAllOrientations(product)[orientationIndex + 1].dims
    IN  d[1] <= carton.length /\ d[2] <= carton.breadth /\ d[3] <= carton.height

\* calculateMaxStackLayers with the fragile cap dropped
MaxStackLayersNoFragileCap(product, carton, itemHeight) ==
    LET maxLayersByHeight == carton.height \div itemHeight
        maxLayersByWeight == product.maxStackWeight \div product.weight
    IN  Min2(Min2(maxLayersByHeight, maxLayersByWeight), carton.maxStackLayers)

\* calculateMaxStackLayers with the weight-bearing limit dropped
MaxStackLayersNoStackWeight(product, carton, itemHeight) ==
    LET maxLayersByHeight == carton.height \div itemHeight
        maxLayersByFragility ==
            IF product.isFragile THEN Min2(3, maxLayersByHeight) ELSE maxLayersByHeight
    IN  Min2(Min2(maxLayersByHeight, maxLayersByFragility), carton.maxStackLayers)

\* calculateMaxStackLayers
calculateMaxStackLayers(product, carton, itemHeight) ==
    LET maxLayersByHeight == carton.height \div itemHeight
        maxLayersByWeight == product.maxStackWeight \div product.weight
        maxLayersByFragility ==
            IF product.isFragile THEN Min2(3, maxLayersByHeight) ELSE maxLayersByHeight
    IN  Min2(Min2(maxLayersByHeight, maxLayersByWeight),
             Min2(maxLayersByFragility, carton.maxStackLayers))

\* getOrientedDimensions with the orientation ignored
GetOrientedDimensionsUnrotated(product, orientation) ==
    [length |-> product.length, breadth |-> product.breadth, height |-> product.height]

\* PackedItem.getOrientedDimensions: the row of its own table of permutations
getOrientedDimensions(product, orientation) ==
    LET orientations == <<
            <<product.length, product.breadth, product.height>>,
            <<product.length, product.height, product.breadth>>,
            <<product.breadth, product.length, product.height>>,
            <<product.breadth, product.height, product.length>>,
            <<product.height, product.length, product.breadth>>,
            <<product.height, product.breadth, product.length>> >>
        row == orientations[orientation + 1]
    IN  [length |-> row[1], breadth |-> row[2], height |-> row[3]]

\* generate3DLayout standing every item on the one before, in a single column
Generate3DLayoutColumn(product, orientation, itemsPerLength, itemsPerBreadth, totalItems, pLength, pBreadth, pHeight) ==
    [k \in 1..totalItems |->
        [position |-> [x |-> 0, y |-> 0, z |-> (k - 1) * pHeight],
         orientation |-> orientation.index,
         stackLevel |-> k,
         dimensions |-> getOrientedDimensions(product, orientation.index)]]

\* generate3DLayout: item k (1-based) of the layer / breadth / length loops
generate3DLayout(product, orientation, itemsPerLength, itemsPerBreadth, totalItems, pLength, pBreadth, pHeight) ==
    [k \in 1..totalItems |->
        LET perLayer == itemsPerLength * itemsPerBreadth
            layer == (k - 1) \div perLayer
            inLayer == (k - 1) % perLayer
            breadthIndex == inLayer \div itemsPerLength
            lengthIndex == inLayer % itemsPerLength
        IN  [position |-> [x |-> lengthIndex * pLength,
                           y |-> breadthIndex * pBreadth,
                           z |-> layer * pHeight],
             orientation |-> orientation.index,
             stackLevel |-> layer + 1,
             dimensions |-> getOrientedDimensions(product, orientation.index)]]

\* Math.max(...packedItems.map(item => item.stackLevel))
MaxStackLevel(items) ==
    CHOOSE m \in {items[k].stackLevel : k \in 1..Len(items)} :
        \A k \in 1..Len(items) : items[k].stackLevel <= m

\* analyzeStacking
analyzeStacking(packedItems, product) ==
    LET layers == MaxStackLevel(packedItems)
        itemsPerLayer == Cardinality({k \in 1..Len(packedItems) : packedItems[k].stackLevel = 1})
    IN  [totalLayers |-> layers,
         itemsPerLayer |-> itemsPerLayer,
         stackingSafety |-> itemsPerLayer * product.weight <= product.maxStackWeight,
         isFragileStacking |-> product.isFragile /\ layers > 1]

\* calculateSpaceUtilization, in Scale units
calculateSpaceUtilization(packedItems, product, carton) ==
    (Len(packedItems) * ProductVolume(product) * Scale) \div CartonVolume(carton)

\* calculateCenterOfMass, in PosScale units
calculateCenterOfMass(packedItems, product) ==
    LET n == Len(packedItems)
        totalWeight == n * product.weight
        cx(k) == PosScale * packedItems[k].position.x + (PosScale * packedItems[k].dimensions.length) \div 2
        cy(k) == PosScale * packedItems[k].position.y + (PosScale * packedItems[k].dimensions.breadth) \div 2
        cz(k) == PosScale * packedItems[k].position.z + (PosScale * packedItems[k].dimensions.height) \div 2
        weightedX == SumSeq([k \in 1..n |-> cx(k) * product.weight])
        weightedY == SumSeq([k \in 1..n |-> cy(k) * product.weight])
        weightedZ == SumSeq([k \in 1..n |-> cz(k) * product.weight])
    IN  [x |-> weightedX \div totalWeight,
         y |-> weightedY \div totalWeight,
         z |-> weightedZ \div totalWeight]

\* line 579 with the weight constraint dropped
ActualItemsNoWeight(totalItemsByVolume, maxItemsByWeight, maxQuantity) ==
    Min2(totalItemsByVolume, maxQuantity)

\* line 579 with the requested quantity ignored
ActualItemsNoQuantity(totalItemsByVolume, maxItemsByWeight, maxQuantity) ==
    Min2(totalItemsByVolume, maxItemsByWeight)

\* line 579 with the volume constraint dropped
ActualItemsNoVolume(totalItemsByVolume, maxItemsByWeight, maxQuantity) ==
    Min2(maxItemsByWeight, maxQuantity)

\* Math.min(totalItemsByVolume, maxItemsByWeight, maxQuantity)
actualItems(totalItemsByVolume, maxItemsByWeight, maxQuantity) ==
    Min2(Min2(totalItemsByVolume, maxItemsByWeight), maxQuantity)

\* calculateOptimal3DLayout, the object returned for the items generated
layoutRecord(product, carton, itemsPerLength, itemsPerBreadth, actualItemsPacked, packedItems) ==
    [itemsPacked |-> actualItemsPacked,
     itemsPerLayer |-> itemsPerLength * itemsPerBreadth,
     layers |-> CeilDiv(actualItemsPacked, itemsPerLength * itemsPerBreadth),
     arrangement |-> [lengthwise |-> itemsPerLength,
                      breadthwise |-> itemsPerBreadth,
                      layers |-> CeilDiv(actualItemsPacked, itemsPerLength * itemsPerBreadth)],
     packedItems |-> packedItems,
     stackingInfo |-> analyzeStacking(packedItems, product),
     spaceUtilization |-> calculateSpaceUtilization(packedItems, product, carton),
     centerOfMass |-> calculateCenterOfMass(packedItems, product)]

\* calculateOptimal3DLayout from "if (actualItemsPacked === 0) return null" on
layoutOfItems(product, carton, orientation, itemsPerLength, itemsPerBreadth, actualItemsPacked) ==
    IF actualItemsPacked = 0 THEN None
    ELSE layoutRecord(product, carton, itemsPerLength, itemsPerBreadth, actualItemsPacked,
                      generate3DLayout(product, orientation, itemsPerLength, itemsPerBreadth, actualItemsPacked,
                                       orientation.dims[1], orientation.dims[2], orientation.dims[3]))

\* calculateOptimal3DLayout: the fit of one orientation in one carton instance
calculateOptimal3DLayout(product, carton, orientation, maxQuantity) ==
    LET pLength == orientation.dims[1]
        pBreadth == orientation.dims[2]
        pHeight == orientation.dims[3]
        itemsPerLength == carton.length \div pLength
        itemsPerBreadth == carton.breadth \div pBreadth
    IN  IF pLength > carton.length \/ pBreadth > carton.breadth \/ pHeight > carton.height
        THEN None
        ELSE IF itemsPerLength * itemsPerBreadth = 0 THEN None
        ELSE layoutOfItems(product, carton, orientation, itemsPerLength, itemsPerBreadth,
                 actualItems(itemsPerLength * itemsPerBreadth
                                 * calculateMaxStackLayers(product, carton, pHeight),
                             carton.maxWeight \div product.weight,
                             maxQuantity))

\* calculateStackingScore, in Scale units
calculateStackingScore(layout, product) ==
    IF layout.layers <= 1 THEN Scale \div 2
    ELSE IF product.isFragile /\ layout.layers > 3 THEN (3 * Scale) \div 10
    ELSE Min2(Scale, (layout.layers * Scale) \div 5)

\* calculateStabilityScore, in Scale units
calculateStabilityScore(layout, carton) ==
    LET com == layout.centerOfMass
        centerX == (PosScale * carton.length) \div 2
        centerY == (PosScale * carton.breadth) \div 2
        centerZ == (PosScale * carton.height) \div 2
        distanceFromCenter ==
            Sqrt((com.x - centerX) * (com.x - centerX)
                 + (com.y - centerY) * (com.y - centerY)
                 + (com.z - centerZ) * (com.z - centerZ))
        maxDistance == Sqrt(centerX * centerX + centerY * centerY + centerZ * centerZ)
    IN  Scale - (distanceFromCenter * Scale) \div maxDistance

\* calculateLayoutScore, in units of 1 / (10 * Scale)
calculateLayoutScore(layout, product, carton) ==
    5 * layout.spaceUtilization
    + 3 * calculateStackingScore(layout, product)
    + 2 * calculateStabilityScore(layout, carton)

\* calculateEfficiency, in Scale units
calculateEfficiency(layout, product, carton) ==
    [volumeEfficiency |-> (layout.itemsPacked * ProductVolume(product) * Scale) \div CartonVolume(carton),
     spaceUtilization |-> layout.spaceUtilization,
     weightUtilization |-> (layout.itemsPacked * product.weight * Scale) \div carton.maxWeight]

\* calculateWasteRatio, in Scale units
calculateWasteRatio(layout) == Scale - layout.spaceUtilization

\* calculatePackingCost, in Scale units
calculatePackingCost(layout, product, carton) ==
    LET baseCost == carton.cost * Scale
        shippingCost == carton.shippingCost * Scale
        inefficiencyPenalty == ((Scale - layout.spaceUtilization) * carton.cost) \div 2
        fragilityPenalty ==
            IF product.isFragile /\ layout.layers > 2
            THEN (product.damageCost * Scale) \div 10 ELSE 0
    IN  baseCost + shippingCost + inefficiencyPenalty + fragilityPenalty

\* calculatePackingScore, in units of 1 / (10 * Scale)
calculatePackingScore(packingResult) ==
    LET efficiency == packingResult.efficiency.volumeEfficiency
        utilization == packingResult.efficiency.spaceUtilization
        costFactor == (Scale * Scale) \div (packingResult.cost + Scale)
    IN  4 * efficiency + 4 * utilization + 2 * costFactor

IsNone(x) == "none" \in DOMAIN x

\* packProductInCarton, the body of the loop over the orientations: best is the
\* layout kept so far (None while bestScore is -Infinity)
betterLayout(best, layout, product, carton, orientation, orientationIndex) ==
    IF /\ ~IsNone(layout)
       /\ layout.itemsPacked > 0
       /\ IsNone(best) \/ calculateLayoutScore(layout, product, carton) > best.score
    THEN [layout |-> layout,
          score |-> calculateLayoutScore(layout, product, carton),
          orientationIndex |-> orientationIndex,
          orientation |-> orientation]
    ELSE best

\* packProductInCarton, the loop over the orientations from position i on
RECURSIVE orientationLoop(_, _, _, _, _, _)
orientationLoop(product, carton, maxQuantity, orientations, i, best) ==
    IF i > Len(orientations) THEN best
    ELSE orientationLoop(product, carton, maxQuantity, orientations, i + 1,
             betterLayout(best,
                          calculateOptimal3DLayout(product, carton, orientations[i], maxQuantity),
                          product, carton, orientations[i], i - 1))

\* packProductInCarton, the object returned for the best layout
packingResultOf(best, product, c, carton) ==
    IF IsNone(best) THEN None
    ELSE [product |-> product,
          carton |-> c,
          itemsPacked |-> best.layout.itemsPacked,
          layout |-> best.layout,
          orientationIndex |-> best.orientationIndex,
          orientation |-> best.orientation,
          efficiency |-> calculateEfficiency(best.layout, product, carton),
          wasteRatio |-> calculateWasteRatio(best.layout),
          cost |-> calculatePackingCost(best.layout, product, carton),
          stackingInfo |-> best.layout.stackingInfo]

\* packProductInCarton; c is the reference of the carton object, carton its value
packProductInCarton(product, c, carton, maxQuantity) ==
    IF ~product.canRotate /\ ~canFitOrientation(product, carton, 0) THEN None
    ELSE packingResultOf(orientationLoop(product, carton, maxQuantity,
                                         getAllOrientations(product), 1, None),
                         product, c, carton)

\* packWithGuillotineConstraints, after the call of packProductInCarton
withWasteRatio(result) ==
    IF IsNone(result) THEN None
    ELSE [result EXCEPT !.wasteRatio = calculateWasteRatio(result.layout)]

\* packWithGuillotineConstraints
packWithGuillotineConstraints(product, c, carton, maxQuantity) ==
    withWasteRatio(packProductInCarton(product, c, carton, maxQuantity))

\* calculateCartonScore, as the pair <<numerator, denominator>> of
\* 10 * (0.3 / (cost + 1) + 0.4 * priority + 0.2 * (popularity + 1) + 0.1 * availability)
calculateCartonScore(carton) ==
    LET priorityFactor == carton.priority
        popularityFactor == carton.popularity + 1
        availabilityFactor == IF carton.availableQuantity > 0 THEN 1 ELSE 0
    IN  << 3 + (4 * priorityFactor + 2 * popularityFactor + availabilityFactor) * (carton.cost + 1),
           carton.cost + 1 >>

\* scoreB - scoreA < 0 in the comparator of sortCartonsByPriority
ScoreGreater(a, b) == a[1] * b[2] > b[1] * a[2]

\* the comparator of the product sort in firstFitDecreasing and bestFitDecreasing
\* is negative: a sorts strictly before b
ProductBefore(a, b) ==
    IF a.priority # b.priority THEN b.priority - a.priority < 0
    ELSE ProductVolume(b) - ProductVolume(a) < 0

\* the comparator of the product sort in packWithGuillotine is negative
ProductBeforeByVolume(a, b) == ProductVolume(b) - ProductVolume(a) < 0

\* Array.prototype.sort is stable: x goes before the first element it strictly precedes
RECURSIVE InsertProduct(_, _, _)
InsertProduct(sorted, x, byVolume) ==
    IF sorted = <<>> THEN <<x>>
    ELSE IF (IF byVolume THEN ProductBeforeByVolume(x, Head(sorted))
             ELSE ProductBefore(x, Head(sorted)))
         THEN <<x>> \o sorted
         ELSE <<Head(sorted)>> \o InsertProduct(Tail(sorted), x, byVolume)

\* [...products].sort(comparator)
RECURSIVE SortProducts(_, _)
SortProducts(s, byVolume) ==
    IF s = <<>> THEN <<>>
    ELSE InsertProduct(SortProducts(SubSeq(s, 1, Len(s) - 1), byVolume), s[Len(s)], byVolume)

\* evaluatePackingQuality with the sign of the score reversed
EvaluatePackingQualityReversed(results) ==
    IF Len(results) = 0 THEN None
    ELSE [score |-> SumSeq([k \in 1..Len(results) |-> results[k].cost])
                      - SumSeq([k \in 1..Len(results) |-> results[k].itemsPacked]) * 100 * Scale]

\* evaluatePackingQuality, in Scale units; None stands for -Infinity
evaluatePackingQuality(results) ==
    IF Len(results) = 0 THEN None
    ELSE LET totalItems == SumSeq([k \in 1..Len(results) |-> results[k].itemsPacked])
             totalCost == SumSeq([k \in 1..Len(results) |-> results[k].cost])
             avgEfficiency ==
                 SumSeq([k \in 1..Len(results) |-> results[k].efficiency.volumeEfficiency])
                     \div Len(results)
         IN  [score |-> totalItems * 100 * Scale - totalCost - (Scale - avgEfficiency) * 50]

----------------------------------------------------------------------------
(* The carton scans of the three strategies.  refs is the array scanned,   *)
(* h the heap holding the carton objects.                                  *)

\* sortCartonsByPriority: x goes before the first carton it outscores (stable sort)
RECURSIVE InsertCarton(_, _, _)
InsertCarton(sorted, x, h) ==
    IF sorted = <<>> THEN <<x>>
    ELSE IF ScoreGreater(calculateCartonScore(h[x]), calculateCartonScore(h[Head(sorted)]))
         THEN <<x>> \o sorted
         ELSE <<Head(sorted)>> \o InsertCarton(Tail(sorted), x, h)

\* sortCartonsByPriority: a sorted shallow copy, sharing the carton objects
RECURSIVE sortCartonsByPriority(_, _)
sortCartonsByPriority(refs, h) ==
    IF refs = <<>> THEN <<>>
    ELSE InsertCarton(sortCartonsByPriority(SubSeq(refs, 1, Len(refs) - 1), h), refs[Len(refs)], h)

\* firstFitDecreasing taking the lowest-ranked carton that fits instead of the first
LastFitScan(product, remaining, refs, h, k) ==
    LET fits == {j \in k..Len(refs) :
                    /\ h[refs[j]].availableQuantity > 0
                    /\ ~IsNone(packProductInCarton(product, refs[j], h[refs[j]], remaining))}
    IN  IF fits = {} THEN None
        ELSE LET last == CHOOSE j \in fits : \A i \in fits : i <= j
             IN  packProductInCarton(product, refs[last], h[refs[last]], remaining)

RECURSIVE firstFitScan(_, _, _, _, _)
\* firstFitDecreasing, the test of one carton's packingResult: first fit
firstFitTake(packingResult, product, remaining, refs, h, k) ==
    IF ~IsNone(packingResult) /\ packingResult.itemsPacked > 0
    THEN packingResult
    ELSE firstFitScan(product, remaining, refs, h, k + 1)

\* firstFitDecreasing, the for loop over sortedCartons from position k on
firstFitScan(product, remaining, refs, h, k) ==
    IF k > Len(refs) THEN None
    ELSE IF h[refs[k]].availableQuantity <= 0
         THEN firstFitScan(product, remaining, refs, h, k + 1)
         ELSE firstFitTake(packProductInCarton(product, refs[k], h[refs[k]], remaining),
                           product, remaining, refs, h, k)

\* bestFitDecreasing, the test of one carton's packingResult: strictly higher score
betterFit(bestFit, packingResult) ==
    IF /\ ~IsNone(packingResult)
       /\ packingResult.itemsPacked > 0
       /\ IsNone(bestFit) \/ calculatePackingScore(packingResult) > calculatePackingScore(bestFit)
    THEN packingResult
    ELSE bestFit

\* bestFitDecreasing, the for loop over cartons from position k on
RECURSIVE bestFitScan(_, _, _, _, _, _)
bestFitScan(product, remaining, refs, h, k, bestFit) ==
    IF k > Len(refs) THEN bestFit
    ELSE IF h[refs[k]].availableQuantity <= 0
         THEN bestFitScan(product, remaining, refs, h, k + 1, bestFit)
         ELSE bestFitScan(product, remaining, refs, h, k + 1,
                  betterFit(bestFit, packProductInCarton(product, refs[k], h[refs[k]], remaining)))

\* packWithGuillotine, the test of one carton's packingResult: strictly lower waste
lessWaste(bestFit, packingResult) ==
    IF /\ ~IsNone(packingResult)
       /\ IsNone(bestFit) \/ packingResult.wasteRatio < bestFit.wasteRatio
    THEN packingResult
    ELSE bestFit

\* packWithGuillotine, the for loop over cartons from position k on
RECURSIVE guillotineScan(_, _, _, _, _, _)
guillotineScan(product, remaining, refs, h, k, bestFit) ==
    IF k > Len(refs) THEN bestFit
    ELSE IF h[refs[k]].availableQuantity <= 0
         THEN guillotineScan(product, remaining, refs, h, k + 1, bestFit)
         ELSE guillotineScan(product, remaining, refs, h, k + 1,
                  lessWaste(bestFit, packWithGuillotineConstraints(product, refs[k], h[refs[k]], remaining)))

\* packItems / packWithSkyline / enhancedBasicPacking: the strategy a selector runs
StrategyOf(algorithm) ==
    IF algorithm = "ffd" \/ algorithm = "skyline" THEN "ffd"
    ELSE IF algorithm = "bfd" THEN "bfd"
    ELSE IF algorithm = "guillotine" THEN "guillotine"
    ELSE "hybrid"

\* the bestFit of one iteration of the while loop of strategy s
bestFitOf(s, product, remaining, unsorted, sorted, h) ==
    IF s = "ffd" THEN firstFitScan(product, remaining, sorted, h, 1)
    ELSE IF s = "bfd" THEN bestFitScan(product, remaining, unsorted, h, 1, None)
    ELSE guillotineScan(product, remaining, unsorted, h, 1, None)

----------------------------------------------------------------------------
(* Inputs tried                                                            *)

\* Product objects as the routes build them (new Product(...)), without id:
\* the product of the worked example (10 x 5 x 5, weight 2, quantity 20); a fragile
\* product that may not rotate; a product whose stack bears one layer; a product
\* whose stack bears less than one item; a flat product that lies in one layer
\* or stands in a column
ProductPool ==
    { [length |-> 10, breadth |-> 5, height |-> 5, weight |-> 2, quantity |-> 20,
       isFragile |-> FALSE, maxStackWeight |-> 100, canRotate |-> TRUE,
       priority |-> 1, damageCost |-> 0],
      [length |-> 5, breadth |-> 10, height |-> 2, weight |-> 1, quantity |-> 30,
       isFragile |-> TRUE, maxStackWeight |-> 20, canRotate |-> FALSE,
       priority |-> 2, damageCost |-> 10],
      [length |-> 6, breadth |-> 12, height |-> 4, weight |-> 4, quantity |-> 1,
       isFragile |-> FALSE, maxStackWeight |-> 4, canRotate |-> TRUE,
       priority |-> 1, damageCost |-> 0],
      [length |-> 5, breadth |-> 5, height |-> 5, weight |-> 4, quantity |-> 2,
       isFragile |-> FALSE, maxStackWeight |-> 3, canRotate |-> TRUE,
       priority |-> 3, damageCost |-> 0],
      [length |-> 1, breadth |-> 5, height |-> 9, weight |-> 1, quantity |-> 8,
       isFragile |-> FALSE, maxStackWeight |-> 100, canRotate |-> TRUE,
       priority |-> 1, damageCost |-> 0] }

\* Carton objects as the callers supply them, without id: the carton of the
\* worked example (20 x 20 x 20, maxWeight 100, one in stock); its cheaper twin
\* with none in stock; a flat carton; a light carton of two layers; the cheaper
\* twin with one in stock
CartonPool ==
    { [length |-> 20, breadth |-> 20, height |-> 20, maxWeight |-> 100,
       availableQuantity |-> 1, cost |-> 8, shippingCost |-> 5,
       priority |-> 1, popularity |-> 0, maxStackLayers |-> 10],
      [length |-> 20, breadth |-> 20, height |-> 20, maxWeight |-> 100,
       availableQuantity |-> 0, cost |-> 5, shippingCost |-> 5,
       priority |-> 1, popularity |-> 0, maxStackLayers |-> 10],
      [length |-> 12, breadth |-> 8, height |-> 6, maxWeight |-> 10,
       availableQuantity |-> 2, cost |-> 2, shippingCost |-> 1,
       priority |-> 1, popularity |-> 1, maxStackLayers |-> 10],
      [length |-> 12, breadth |-> 12, height |-> 12, maxWeight |-> 6,
       availableQuantity |-> 3, cost |-> 3, shippingCost |-> 2,
       priority |-> 2, popularity |-> 0, maxStackLayers |-> 2],
      [length |-> 20, breadth |-> 20, height |-> 20, maxWeight |-> 100,
       availableQuantity |-> 1, cost |-> 5, shippingCost |-> 5,
       priority |-> 1, popularity |-> 0, maxStackLayers |-> 10] }

\* the algorithm selectors of packItems
Algorithms == {"ffd", "bfd", "guillotine", "skyline", "hybrid"}

\* the lists of 1..n different elements of pool
ListsOf(pool, n) ==
    UNION { { s \in [1..k -> pool] : \A i, j \in 1..k : s[i] = s[j] => i = j } : k \in 1..n }

\* ids as the /enhanced-packing route gives them: the position in the request
WithIds(s) == [k \in 1..Len(s) |-> [id |-> k] @@ s[k]]

\* validatePackingInput accepts an empty products array and rejects an empty
\* cartons array
Requests ==
    { [products |-> WithIds(ps), cartons |-> WithIds(cs), algorithm |-> a] :
        ps \in {<<>>} \cup ListsOf(ProductPool, MaxProducts),
        cs \in ListsOf(CartonPool, MaxCartons),
        a \in Algorithms }

----------------------------------------------------------------------------
(* State                                                                   *)

VARIABLES
    request,            \* what the caller passed: products, cartons, algorithm (never written)
    products,           \* the caller's product objects
    cartons,            \* the caller's carton array: references into heap
    heap,               \* carton objects by reference
    pc,                 \* where the call of calculateOptimalPacking stands
    workingCartons,     \* calculateOptimalPacking: array of references to the working copies
    pIdx,               \* calculateOptimalPacking: position of the for loop over productArray
    remainingQuantity,  \* calculateOptimalPacking: remainingQuantity of the current product
    productResults,     \* calculateOptimalPacking: productResults of the current product
    allResults,         \* calculateOptimalPacking: allResults
    unpackedProducts,   \* calculateOptimalPacking: unpackedProducts
    packingResults,     \* calculateOptimalPacking: what packItems returned
    mIdx,               \* calculateOptimalPacking: position of the for loop over packingResults
    result,             \* the value calculateOptimalPacking returns (None before)
    algoQueue,          \* packItems / hybridPacking: the strategies still to run
    bestResult,         \* hybridPacking: bestResult ([results |-> ...] or None)
    bestScore,          \* hybridPacking: bestScore ([score |-> ...] or None for -Infinity)
    fallback,           \* hybridPacking: TRUE inside basicPacking
    algo,               \* the strategy running
    sortedProducts,     \* strategy: sortedProducts
    sortedCartons,      \* firstFitDecreasing: sortedCartons
    sIdx,               \* strategy: position of the for loop over sortedProducts
    sRemaining,         \* strategy: remainingQuantity
    results,            \* strategy: results
    entryAvail,         \* history: availableQuantity of the working cartons when packItems was entered
    runs,               \* history: the strategies that have returned to packItems in this call of it or raised an error, with their results
    now,                \* environment: the reading of the clock of the host (Date.now())
    previous,           \* environment: a returned value the caller has kept (None before)
    shipInput,          \* shippingUtils: the arguments of calculateOptimalPacking (never written)
    shipPc,             \* shippingUtils: where the call of calculateOptimalPacking stands
    shipCartons,        \* shippingUtils calculateOptimalPacking: cartons, sorted
    shipRemaining,      \* shippingUtils calculateOptimalPacking: remainingQuantity
    shipResults,        \* shippingUtils calculateOptimalPacking: packingResults
    usedCartons,        \* shippingUtils calculateOptimalPacking: usedCartons
    shipResult          \* shippingUtils: the value calculateOptimalPacking returns (None before)

inputVars == <<request, products, cartons>>
callVars == <<workingCartons, pIdx, remainingQuantity, productResults, allResults, unpackedProducts, packingResults, mIdx, result>>
hybridVars == <<algoQueue, bestResult, bestScore, fallback>>
stratVars == <<algo, sortedProducts, sortedCartons, sIdx, sRemaining, results>>
envVars == <<now, previous>>
shipVars == <<shipInput, shipPc, shipCartons, shipRemaining, shipResults, usedCartons, shipResult>>
vars == <<inputVars, heap, pc, callVars, hybridVars, stratVars, entryAvail, runs, envVars, shipVars>>

\* the shipping calculator of shippingUtils is not called
ShipNotCalled ==
    /\ shipInput = None
    /\ shipPc = "off"
    /\ shipCartons = <<>>
    /\ shipRemaining = 0
    /\ shipResults = <<>>
    /\ usedCartons = {}
    /\ shipResult = None

\* availableQuantity of the carton objects an array refers to
AvailOf(refs, h) == [k \in 1..Len(refs) |-> h[refs[k]].availableQuantity]

Init ==
    /\ request \in Requests
    /\ products = request.products
    /\ cartons = [k \in 1..Len(request.cartons) |-> k]
    /\ heap = [r \in 1..Len(request.cartons) |-> request.cartons[r]]
    /\ pc = "idle"
    /\ workingCartons = <<>>
    /\ pIdx = 0
    /\ remainingQuantity = 0
    /\ productResults = <<>>
    /\ allResults = <<>>
    /\ unpackedProducts = <<>>
    /\ packingResults = <<>>
    /\ mIdx = 0
    /\ result = None
    /\ algoQueue = <<>>
    /\ bestResult = None
    /\ bestScore = None
    /\ fallback = FALSE
    /\ algo = "none"
    /\ sortedProducts = <<>>
    /\ sortedCartons = <<>>
    /\ sIdx = 0
    /\ sRemaining = 0
    /\ results = <<>>
    /\ entryAvail = <<>>
    /\ runs = <<>>
    /\ now = 0
    /\ previous = None
    /\ ShipNotCalled

----------------------------------------------------------------------------
(* calculateOptimalPacking                                                 *)

\* carton.availableQuantity || 1
OrOne(q) == IF q = 0 THEN 1 ELSE q

\* the working copy taken as the caller's array itself (no copy)
WorkingCopyAliased(refs, h) == [refs |-> refs, heap |-> h]

\* cartons.map(carton => ({...carton, availableQuantity: carton.availableQuantity || 1})):
\* fresh objects, one per carton of the caller
WorkingCopy(refs, h) ==
    LET n == Len(refs)
    IN  [refs |-> [k \in 1..n |-> n + k],
         heap |-> [r \in 1..(2 * n) |->
                     IF r <= n THEN h[r]
                     ELSE [h[refs[r - n]] EXCEPT !.availableQuantity = OrOne(@)]]]

\* entry of calculateOptimalPacking, up to the for loop over productArray
Call ==
    /\ pc = "idle"
    /\ LET copy == WorkingCopy(cartons, heap)
       IN  /\ workingCartons' = copy.refs
           /\ heap' = copy.heap
    /\ pIdx' = 1
    /\ allResults' = <<>>
    /\ unpackedProducts' = <<>>
    /\ pc' = IF Len(products) > 0 THEN "product" ELSE "summary"
    /\ UNCHANGED <<inputVars, remainingQuantity, productResults, packingResults, mIdx, result>>
    /\ UNCHANGED <<hybridVars, stratVars, entryAvail, runs, envVars, shipVars>>

\* head of the for loop over productArray and the call of packItems:
\* hybridPacking runs ffd, bfd, guillotine; any other selector runs its one strategy
BeginProduct ==
    /\ pc = "product"
    /\ remainingQuantity' = products[pIdx].quantity
    /\ productResults' = <<>>
    /\ algoQueue' = IF StrategyOf(request.algorithm) = "hybrid"
                    THEN <<"ffd", "bfd", "guillotine">>
                    ELSE <<StrategyOf(request.algorithm)>>
    /\ bestResult' = None
    /\ bestScore' = None
    /\ fallback' = FALSE
    /\ entryAvail' = AvailOf(workingCartons, heap)
    /\ runs' = <<>>
    /\ UNCHANGED <<envVars, shipVars>>
    /\ pc' = "packItems"
    /\ UNCHANGED <<inputVars, heap, workingCartons, pIdx, allResults, unpackedProducts, packingResults, mIdx, result>>
    /\ UNCHANGED stratVars

\* entry of a strategy, up to the while loop of its first product; the
\* products passed are [{...product, quantity: remainingQuantity}]
StrategyEnter ==
    /\ pc = "packItems"
    /\ algoQueue # <<>>
    /\ algo' = Head(algoQueue)
    /\ algoQueue' = Tail(algoQueue)
    /\ LET passed == << [products[pIdx] EXCEPT !.quantity = remainingQuantity] >>
           sorted == SortProducts(passed, Head(algoQueue) = "guillotine")
       IN  /\ sortedProducts' = sorted
           /\ sIdx' = 1
           /\ sRemaining' = sorted[1].quantity
    /\ sortedCartons' = IF Head(algoQueue) = "ffd"
                        THEN sortCartonsByPriority(workingCartons, heap)
                        ELSE <<>>
    /\ results' = <<>>
    /\ pc' = "loop"
    /\ UNCHANGED <<inputVars, heap, callVars, bestResult, bestScore, fallback, entryAvail, runs, envVars, shipVars>>

\* the placement of bestFit with remainingQuantity left as it was
TakeBestFitKeepingRemaining(bestFit) ==
    IF ~IsNone(bestFit)
    THEN /\ results' = Append(results, bestFit)
         /\ heap' = [heap EXCEPT ![bestFit.carton].availableQuantity = @ - 1]
         /\ UNCHANGED <<sRemaining, sIdx, pc>>
    ELSE /\ pc' = "stratDone"
         /\ UNCHANGED <<sIdx, sRemaining, results, heap>>

\* the while loop of the strategy after its for loop over the cartons: the
\* placement of bestFit, or the exit of the loop and the step to the next product
TakeBestFit(bestFit) ==
    IF ~IsNone(bestFit)
    THEN /\ results' = Append(results, bestFit)
         /\ sRemaining' = sRemaining - bestFit.itemsPacked
         /\ heap' = [heap EXCEPT ![bestFit.carton].availableQuantity = @ - 1]
         /\ UNCHANGED <<sIdx, pc>>
    ELSE /\ IF sIdx < Len(sortedProducts)
            THEN /\ sIdx' = sIdx + 1
                 /\ sRemaining' = sortedProducts[sIdx + 1].quantity
                 /\ pc' = "loop"
            ELSE /\ pc' = "stratDone"
                 /\ UNCHANGED <<sIdx, sRemaining>>
         /\ UNCHANGED <<results, heap>>

\* one evaluation of the while loop of the strategy
StrategyStep ==
    /\ pc = "loop"
    /\ TakeBestFit(IF sRemaining > 0
                   THEN bestFitOf(algo, sortedProducts[sIdx], sRemaining, workingCartons, sortedCartons, heap)
                   ELSE None)
    /\ UNCHANGED <<inputVars, callVars, hybridVars, algo, sortedProducts, sortedCartons, entryAvail, runs, envVars, shipVars>>

\* return of a strategy to packItems: a single strategy (and basicPacking)
\* returns its results; hybridPacking scores them, keeps the best, runs the
\* next strategy and at the end returns bestResult || basicPacking(...)
StrategyReturn ==
    /\ pc = "stratDone"
    /\ IF StrategyOf(request.algorithm) # "hybrid" \/ fallback
       THEN /\ packingResults' = results
            /\ mIdx' = 1
            /\ pc' = "merge"
            /\ UNCHANGED hybridVars
       ELSE LET score == evaluatePackingQuality(results)
                better == /\ ~IsNone(score)
                          /\ IsNone(bestScore) \/ score.score > bestScore.score
                newBest == IF better THEN [results |-> results] ELSE bestResult
            IN  /\ bestScore' = IF better THEN score ELSE bestScore
                /\ bestResult' = newBest
                /\ IF algoQueue # <<>>
                   THEN /\ pc' = "packItems"
                        /\ UNCHANGED <<packingResults, mIdx, fallback, algoQueue>>
                   ELSE IF ~IsNone(newBest)
                   THEN /\ packingResults' = newBest.results
                        /\ mIdx' = 1
                        /\ pc' = "merge"
                        /\ UNCHANGED <<fallback, algoQueue>>
                   ELSE /\ fallback' = TRUE
                        /\ algoQueue' = <<"ffd">>
                        /\ pc' = "packItems"
                        /\ UNCHANGED <<packingResults, mIdx>>
    /\ UNCHANGED <<inputVars, heap, workingCartons, pIdx, remainingQuantity, productResults, allResults, unpackedProducts, result>>
    /\ runs' = Append(runs, [algo |-> algo, results |-> results, threw |-> FALSE])
    /\ UNCHANGED <<stratVars, entryAvail, envVars, shipVars>>

\* Math.round(x * 1000) / 10 of a ratio x held in Scale units, in tenths of a percent
Percent(x) == (x * 1000 + Scale \div 2) \div Scale

\* workingCartons.findIndex(c => c.id === id), 0 for -1
RECURSIVE findIndexFrom(_, _, _, _)
findIndexFrom(refs, h, id, k) ==
    IF k > Len(refs) THEN 0
    ELSE IF h[refs[k]].id = id THEN k
    ELSE findIndexFrom(refs, h, id, k + 1)

\* the record pushed on productResults for one result of packItems; cost.total
\* is Math.round(result.cost * 100) / 100, held in cents
PlacementRecord(product, r, carton, order) ==
    [productId |-> product.id,
     cartonId |-> carton.id,
     cartonDetails |-> [id |-> carton.id, length |-> carton.length,
                        breadth |-> carton.breadth, height |-> carton.height,
                        maxWeight |-> carton.maxWeight, cost |-> carton.cost],
     itemsPacked |-> r.itemsPacked,
     orientationIndex |-> r.orientationIndex,
     efficiency |-> [volumeEfficiency |-> Percent(r.efficiency.volumeEfficiency),
                     spaceUtilization |-> Percent(r.efficiency.spaceUtilization),
                     weightUtilization |-> Percent(r.efficiency.weightUtilization)],
     layout |-> [arrangement |-> r.layout.arrangement,
                 layers |-> r.layout.layers,
                 itemsPerLayer |-> r.layout.itemsPerLayer],
     stackingInfo |-> r.stackingInfo,
     cost |-> [total |-> (2 * r.cost + Scale \div 100) \div (2 * (Scale \div 100))],
     packingOrder |-> order,
     timestamp |-> now]

\* body of the for loop over packingResults: record the placement, count it
\* off remainingQuantity and decrement the carton found by id
MergeResult ==
    /\ pc = "merge"
    /\ mIdx <= Len(packingResults)
    /\ LET r == packingResults[mIdx]
           cartonIndex == findIndexFrom(workingCartons, heap, heap[r.carton].id, 1)
       IN  IF r.itemsPacked > 0
           THEN /\ productResults' = Append(productResults,
                        PlacementRecord(products[pIdx], r, heap[r.carton], Len(allResults) + 1))
                /\ remainingQuantity' = remainingQuantity - r.itemsPacked
                /\ heap' = IF cartonIndex >= 1
                           THEN [heap EXCEPT ![workingCartons[cartonIndex]].availableQuantity = @ - 1]
                           ELSE heap
           ELSE UNCHANGED <<productResults, remainingQuantity, heap>>
    /\ mIdx' = mIdx + 1
    /\ UNCHANGED <<inputVars, pc, workingCartons, pIdx, allResults, unpackedProducts, packingResults, result>>
    /\ UNCHANGED <<hybridVars, stratVars, entryAvail, runs, envVars, shipVars>>

\* the end of the body of the for loop over productArray with the remainder
\* of the product not reported
EndProductDroppingRemainder ==
    /\ pc = "merge"
    /\ mIdx > Len(packingResults)
    /\ allResults' = allResults \o productResults
    /\ pIdx' = pIdx + 1
    /\ pc' = IF pIdx < Len(products) THEN "product" ELSE "summary"
    /\ UNCHANGED <<inputVars, heap, workingCartons, remainingQuantity, productResults, packingResults, mIdx, result>>
    /\ UNCHANGED <<unpackedProducts, hybridVars, stratVars, entryAvail, runs, envVars, shipVars>>

\* end of the body of the for loop over productArray
EndProduct ==
    /\ pc = "merge"
    /\ mIdx > Len(packingResults)
    /\ allResults' = allResults \o productResults
    /\ unpackedProducts' =
          IF remainingQuantity > 0
          THEN Append(unpackedProducts, [productId |-> products[pIdx].id,
                                         remainingQuantity |-> remainingQuantity,
                                         reason |-> "Insufficient carton space or weight capacity"])
          ELSE unpackedProducts
    /\ pIdx' = pIdx + 1
    /\ pc' = IF pIdx < Len(products) THEN "product" ELSE "summary"
    /\ UNCHANGED <<inputVars, heap, workingCartons, remainingQuantity, productResults, packingResults, mIdx, result>>
    /\ UNCHANGED <<hybridVars, stratVars, entryAvail, runs, envVars, shipVars>>

\* the key of cartonTypeAnalysis: `${length}×${breadth}×${height}`, which is
\* the same string for the same three numbers only
CartonTypeKey(cartonDetails) == <<cartonDetails.length, cartonDetails.breadth, cartonDetails.height>>

\* position of the entry of a key in the entries of cartonTypeAnalysis (in
\* the order the keys were added), 0 when there is none
EntryOfKey(analysis, key) ==
    IF \E i \in 1..Len(analysis) : analysis[i].cartonType = key
    THEN CHOOSE i \in 1..Len(analysis) : analysis[i].cartonType = key
    ELSE 0

\* the body of the forEach with the placement that creates an entry not counted in it
AddToAnalysisAfterFirst(analysis, r) ==
    LET key == CartonTypeKey(r.cartonDetails)
        at == EntryOfKey(analysis, key)
    IN  IF at = 0
        THEN Append(analysis, [cartonType |-> key, count |-> 0, totalItems |-> 0,
                               cartonDetails |-> r.cartonDetails])
        ELSE [analysis EXCEPT ![at].count = @ + 1, ![at].totalItems = @ + r.itemsPacked]

\* the body of the forEach over allResults: the entry of the key is created
\* when missing, then count and totalItems are added to
AddToAnalysis(analysis, r) ==
    LET key == CartonTypeKey(r.cartonDetails)
        at == EntryOfKey(analysis, key)
        created == IF at = 0
                   THEN Append(analysis, [cartonType |-> key, count |-> 0, totalItems |-> 0,
                                          cartonDetails |-> r.cartonDetails])
                   ELSE analysis
        pos == IF at = 0 THEN Len(analysis) + 1 ELSE at
    IN  [created EXCEPT ![pos].count = @ + 1, ![pos].totalItems = @ + r.itemsPacked]

\* Object.values(cartonTypeAnalysis) after the forEach over the placements from k on
RECURSIVE cartonTypeAnalysis(_, _, _)
cartonTypeAnalysis(placements, k, analysis) ==
    IF k > Len(placements) THEN analysis
    ELSE cartonTypeAnalysis(placements, k + 1, AddToAnalysis(analysis, placements[k]))

\* generatePackingRecommendations without the entry on what was left unpacked
RecommendationsWithoutShortage(placements, unpacked) ==
    LET LowEfficiency(r) == r.efficiency.volumeEfficiency < 600
        lowEfficiencyResults == SelectSeq(placements, LowEfficiency)
    IN  IF Len(lowEfficiencyResults) > 0
        THEN << [type |-> "EFFICIENCY_IMPROVEMENT", priority |-> "MEDIUM",
                 affectedCartons |-> [k \in 1..Len(lowEfficiencyResults) |-> lowEfficiencyResults[k].cartonId]] >>
        ELSE <<>>

\* generatePackingRecommendations; cost.total in cents, volumeEfficiency in
\* tenths of a percent. With no placement the average cost is 0 / 0 and the
\* filters run over nothing.
generatePackingRecommendations(placements, unpacked) ==
    LET n == Len(placements)
        totalCost == SumSeq([k \in 1..n |-> placements[k].cost.total])
        HighCost(r) == r.cost.total * n > totalCost
        LowEfficiency(r) == r.efficiency.volumeEfficiency < 600
        SingleLayer(r) == r.stackingInfo.totalLayers = 1
        highCostResults == SelectSeq(placements, HighCost)
        lowEfficiencyResults == SelectSeq(placements, LowEfficiency)
        singleLayerResults == SelectSeq(placements, SingleLayer)
    IN  (IF Len(highCostResults) > 0
         THEN << [type |-> "COST_OPTIMIZATION", priority |-> "HIGH",
                  affectedCartons |-> [k \in 1..Len(highCostResults) |-> highCostResults[k].cartonId]] >>
         ELSE <<>>)
        \o
        (IF Len(lowEfficiencyResults) > 0
         THEN << [type |-> "EFFICIENCY_IMPROVEMENT", priority |-> "MEDIUM",
                  affectedCartons |-> [k \in 1..Len(lowEfficiencyResults) |-> lowEfficiencyResults[k].cartonId]] >>
         ELSE <<>>)
        \o
        (IF Len(unpacked) > 0
         THEN << [type |-> "CAPACITY_SHORTAGE", priority |-> "HIGH",
                  unpackedProducts |-> unpacked] >>
         ELSE <<>>)
        \o
        (IF 10 * Len(singleLayerResults) > 3 * n
         THEN << [type |-> "STACKING_OPTIMIZATION", priority |-> "MEDIUM",
                  affectedCartons |-> [k \in 1..Len(singleLayerResults) |-> singleLayerResults[k].cartonId]] >>
         ELSE <<>>)

\* Math.round(0 / 0 * 1000) / 10: not a number, outside every interval
NaN == 0 - 1

\* Math.round(a / b) of non-negative a and positive b
RoundDiv(a, b) == (2 * a + b) \div (2 * b)

\* the summary and the return value; percentages in tenths of a percent
Summarize ==
    /\ pc = "summary"
    /\ LET totalItemsPacked == SumSeq([k \in 1..Len(allResults) |-> allResults[k].itemsPacked])
           totalRequestedItems == SumSeq([k \in 1..Len(products) |-> products[k].quantity])
       IN  result' = [packingResults |-> allResults,
                      unpackedProducts |-> unpackedProducts,
                      remainingQuantity |-> totalRequestedItems - totalItemsPacked,
                      summary |-> [totalItemsRequested |-> totalRequestedItems,
                                   totalItemsPacked |-> totalItemsPacked,
                                   totalCartonsUsed |-> Len(allResults),
                                   packingSuccess |-> Len(unpackedProducts) = 0,
                                   packingRate |->
                                       IF totalRequestedItems = 0
                                       THEN NaN
                                       ELSE RoundDiv(totalItemsPacked * 1000, totalRequestedItems),
                                   overallVolumeEfficiency |->
                                       IF Len(allResults) > 0
                                       THEN RoundDiv(SumSeq([k \in 1..Len(allResults) |->
                                                        allResults[k].efficiency.volumeEfficiency]),
                                                     Len(allResults))
                                       ELSE 0,
                                   cartonTypeBreakdown |-> cartonTypeAnalysis(allResults, 1, <<>>),
                                   algorithmUsed |-> request.algorithm],
                      analytics |-> [recommendations |->
                                        generatePackingRecommendations(allResults, unpackedProducts)],
                      metadata |-> [calculationTime |-> now, version |-> "2.0.0"]]
    /\ pc' = "done"
    /\ UNCHANGED <<inputVars, heap, workingCartons, pIdx, remainingQuantity, productResults, allResults, unpackedProducts, packingResults, mIdx>>
    /\ UNCHANGED <<hybridVars, stratVars, entryAvail, runs, envVars, shipVars>>

\* the call has returned: its locals are gone, the caller's objects stay
\* as the call left them and may be passed to the next call
Return ==
    /\ pc = "done"
    /\ pc' = "idle"
    /\ heap' = [r \in 1..Len(cartons) |-> heap[r]]
    /\ workingCartons' = <<>>
    /\ pIdx' = 0
    /\ remainingQuantity' = 0
    /\ productResults' = <<>>
    /\ allResults' = <<>>
    /\ unpackedProducts' = <<>>
    /\ packingResults' = <<>>
    /\ mIdx' = 0
    /\ result' = None
    /\ algoQueue' = <<>>
    /\ bestResult' = None
    /\ bestScore' = None
    /\ fallback' = FALSE
    /\ algo' = "none"
    /\ sortedProducts' = <<>>
    /\ sortedCartons' = <<>>
    /\ sIdx' = 0
    /\ sRemaining' = 0
    /\ results' = <<>>
    /\ entryAvail' = <<>>
    /\ runs' = <<>>
    /\ UNCHANGED <<inputVars, envVars, shipVars>>

Next ==
    \/ Call
    \/ BeginProduct
    \/ StrategyEnter
    \/ StrategyStep
    \/ StrategyReturn
    \/ MergeResult
    \/ EndProduct
    \/ Summarize
    \/ Return

Spec == Init /\ [][Next]_vars

----------------------------------------------------------------------------
(* The engine called again by a caller that keeps what it was returned     *)

\* the clock of the host advances between two calls (within a call it is
\* taken to stand still: a call may take less than the resolution of Date)
Tick ==
    /\ pc = "idle"
    /\ now < MaxClock
    /\ now' = now + 1
    /\ UNCHANGED <<inputVars, heap, pc, callVars, hybridVars, stratVars, entryAvail, runs, previous, shipVars>>

\* the caller keeps the value it was returned first
KeepResult ==
    /\ pc = "done"
    /\ IsNone(previous)
    /\ previous' = result
    /\ UNCHANGED <<inputVars, heap, pc, callVars, hybridVars, stratVars, entryAvail, runs, now, shipVars>>

RepeatNext ==
    \/ Next
    \/ Tick
    \/ KeepResult

RepeatSpec == Init /\ [][RepeatNext]_vars

----------------------------------------------------------------------------
(* A strategy that raises an error                                         *)

\* an error raised in the while loop of a strategy and caught nowhere
StrategyThrowUncaught ==
    /\ pc = "loop"
    /\ pc' = "thrown"
    /\ runs' = Append(runs, [algo |-> algo, results |-> results, threw |-> TRUE])
    /\ UNCHANGED <<inputVars, heap, callVars, hybridVars, stratVars, entryAvail, envVars, shipVars>>

\* an error raised in the while loop of a strategy: hybridPacking catches the
\* error of ffd, bfd and guillotine, warns and goes on to the next strategy;
\* the error of a strategy run alone, or of basicPacking, leaves
\* calculateOptimalPacking, which has no handler
StrategyThrow ==
    /\ pc = "loop"
    /\ IF StrategyOf(request.algorithm) = "hybrid" /\ ~fallback
       THEN IF algoQueue # <<>>
            THEN /\ pc' = "packItems"
                 /\ UNCHANGED <<packingResults, mIdx, hybridVars>>
            ELSE IF ~IsNone(bestResult)
            THEN /\ packingResults' = bestResult.results
                 /\ mIdx' = 1
                 /\ pc' = "merge"
                 /\ UNCHANGED hybridVars
            ELSE /\ fallback' = TRUE
                 /\ algoQueue' = <<"ffd">>
                 /\ pc' = "packItems"
                 /\ UNCHANGED <<packingResults, mIdx, bestResult, bestScore>>
       ELSE /\ pc' = "thrown"
            /\ UNCHANGED <<packingResults, mIdx, hybridVars>>
    /\ runs' = Append(runs, [algo |-> algo, results |-> results, threw |-> TRUE])
    /\ UNCHANGED <<inputVars, heap, workingCartons, pIdx, remainingQuantity, productResults, allResults, unpackedProducts, result>>
    /\ UNCHANGED <<stratVars, entryAvail, envVars, shipVars>>

\* the error reaches the caller (the route answers 500): the locals of the
\* call are gone, the caller's objects stay as the call left them
Unwind ==
    /\ pc = "thrown"
    /\ pc' = "idle"
    /\ heap' = [r \in 1..Len(cartons) |-> heap[r]]
    /\ workingCartons' = <<>>
    /\ pIdx' = 0
    /\ remainingQuantity' = 0
    /\ productResults' = <<>>
    /\ allResults' = <<>>
    /\ unpackedProducts' = <<>>
    /\ packingResults' = <<>>
    /\ mIdx' = 0
    /\ result' = None
    /\ algoQueue' = <<>>
    /\ bestResult' = None
    /\ bestScore' = None
    /\ fallback' = FALSE
    /\ algo' = "none"
    /\ sortedProducts' = <<>>
    /\ sortedCartons' = <<>>
    /\ sIdx' = 0
    /\ sRemaining' = 0
    /\ results' = <<>>
    /\ entryAvail' = <<>>
    /\ runs' = <<>>
    /\ UNCHANGED <<inputVars, envVars, shipVars>>

FaultNext ==
    \/ Next
    \/ StrategyThrow
    \/ Unwind

FaultSpec == Init /\ [][FaultNext]_vars

----------------------------------------------------------------------------
(* The /enhanced-packing route: validation and construction of the objects *)

\* request bodies with a value the validation is there to stop: a product of
\* length 0, a product of quantity 0, a product of negative weight, a carton
\* of height 0, a carton of negative maxWeight
DegenerateProducts ==
    { [length |-> 0, breadth |-> 5, height |-> 5, weight |-> 2, quantity |-> 20,
       isFragile |-> FALSE, maxStackWeight |-> 100, canRotate |-> TRUE,
       priority |-> 1, damageCost |-> 0],
      [length |-> 10, breadth |-> 5, height |-> 5, weight |-> 2, quantity |-> 0,
       isFragile |-> FALSE, maxStackWeight |-> 100, canRotate |-> TRUE,
       priority |-> 1, damageCost |-> 0],
      [length |-> 6, breadth |-> 12, height |-> 4, weight |-> 0 - 4, quantity |-> 1,
       isFragile |-> FALSE, maxStackWeight |-> 4, canRotate |-> TRUE,
       priority |-> 1, damageCost |-> 0] }

DegenerateCartons ==
    { [length |-> 20, breadth |-> 20, height |-> 0, maxWeight |-> 100,
       availableQuantity |-> 1, cost |-> 8, shippingCost |-> 5,
       priority |-> 1, popularity |-> 0, maxStackLayers |-> 10],
      [length |-> 12, breadth |-> 8, height |-> 6, maxWeight |-> 0 - 10,
       availableQuantity |-> 2, cost |-> 2, shippingCost |-> 1,
       priority |-> 1, popularity |-> 1, maxStackLayers |-> 10] }

\* the bodies posted to the route
Bodies ==
    { [products |-> WithIds(ps), cartons |-> WithIds(cs), algorithm |-> a] :
        ps \in {<<>>} \cup ListsOf(ProductPool \cup DegenerateProducts, MaxProducts),
        cs \in ListsOf(CartonPool \cup DegenerateCartons, MaxCartons),
        a \in Algorithms }

\* validatePackingInput: TRUE when it calls next()
validatePackingInput(body) ==
    /\ \A i \in 1..Len(body.products) :
         LET product == body.products[i]
         IN  /\ ~(product.length = 0 \/ product.breadth = 0 \/ product.height = 0
                    \/ product.weight = 0 \/ product.quantity = 0)
             /\ ~(product.length <= 0 \/ product.breadth <= 0 \/ product.height <= 0
                    \/ product.weight <= 0 \/ product.quantity <= 0)
    /\ Len(body.cartons) # 0
    /\ \A i \in 1..Len(body.cartons) :
         LET carton == body.cartons[i]
         IN  /\ ~(carton.length = 0 \/ carton.breadth = 0 \/ carton.height = 0 \/ carton.maxWeight = 0)
             /\ ~(carton.length <= 0 \/ carton.breadth <= 0 \/ carton.height <= 0
                    \/ carton.maxWeight <= 0)

\* the guard of the Product constructor: TRUE when it throws
ProductConstructorThrows(p) ==
    p.length <= 0 \/ p.breadth <= 0 \/ p.height <= 0 \/ p.weight <= 0 \/ p.quantity <= 0

\* the guard of the Carton constructor: TRUE when it throws
CartonConstructorThrows(c) ==
    c.length <= 0 \/ c.breadth <= 0 \/ c.height <= 0 \/ c.maxWeight <= 0

\* new Carton(...) of a carton of the body: availableQuantity is
\* options.availableQuantity || 1
NewCarton(c) == [c EXCEPT !.availableQuantity = OrOne(@)]

RouteInit ==
    /\ request \in Bodies
    /\ products = <<>>
    /\ cartons = <<>>
    /\ heap = <<>>
    /\ pc = "received"
    /\ workingCartons = <<>>
    /\ pIdx = 0
    /\ remainingQuantity = 0
    /\ productResults = <<>>
    /\ allResults = <<>>
    /\ unpackedProducts = <<>>
    /\ packingResults = <<>>
    /\ mIdx = 0
    /\ result = None
    /\ algoQueue = <<>>
    /\ bestResult = None
    /\ bestScore = None
    /\ fallback = FALSE
    /\ algo = "none"
    /\ sortedProducts = <<>>
    /\ sortedCartons = <<>>
    /\ sIdx = 0
    /\ sRemaining = 0
    /\ results = <<>>
    /\ entryAvail = <<>>
    /\ runs = <<>>
    /\ now = 0
    /\ previous = None
    /\ ShipNotCalled

\* the route up to its call of calculateOptimalPacking: the body is answered
\* 400 by validatePackingInput, or 500 when a constructor throws, or the
\* Product and Carton objects are built
Receive ==
    /\ pc = "received"
    /\ IF \/ ~validatePackingInput(request)
          \/ \E i \in 1..Len(request.products) : ProductConstructorThrows(request.products[i])
          \/ \E i \in 1..Len(request.cartons) : CartonConstructorThrows(request.cartons[i])
       THEN /\ pc' = "rejected"
            /\ UNCHANGED <<products, cartons, heap>>
       ELSE /\ pc' = "idle"
            /\ products' = request.products
            /\ cartons' = [k \in 1..Len(request.cartons) |-> k]
            /\ heap' = [r \in 1..Len(request.cartons) |-> NewCarton(request.cartons[r])]
    /\ UNCHANGED <<request, callVars, hybridVars, stratVars, entryAvail, runs, envVars, shipVars>>

RouteNext ==
    \/ Receive
    \/ Next

RouteSpec == RouteInit /\ [][RouteNext]_vars

----------------------------------------------------------------------------
(* shippingUtils.js: calculateOptimalPacking of the shipping calculator    *)

MaxShipQuantity == 6

\* ProductDimensions objects: volume is length * breadth * height
ShipProducts ==
    { [length |-> 2, breadth |-> 2, height |-> 2, volume |-> 8],
      [length |-> 3, breadth |-> 2, height |-> 1, volume |-> 6] }

ShipWeights == {1, 4}

\* Carton objects as the constructor of shippingUtils builds them from an
\* inventory, without id: a carton of eight 2 x 2 x 2 items with three in
\* stock; a dearer, larger one with one in stock; a flat one, none in stock
ShipCartonPool ==
    { [length |-> 4, breadth |-> 4, height |-> 4, weightLimit |-> 30,
       availableQuantity |-> 3, cost |-> 2, volume |-> 64],
      [length |-> 6, breadth |-> 4, height |-> 4, weightLimit |-> 8,
       availableQuantity |-> 1, cost |-> 5, volume |-> 96],
      [length |-> 3, breadth |-> 3, height |-> 1, weightLimit |-> 30,
       availableQuantity |-> 0, cost |-> 1, volume |-> 9] }

ShipInputs ==
    { [productDims |-> p, weightPerProduct |-> w, quantity |-> q, cartons |-> WithIds(cs)] :
        p \in ShipProducts, w \in ShipWeights, q \in 1..MaxShipQuantity,
        cs \in ListsOf(ShipCartonPool, MaxCartons) }

\* the comparator of cartons.sort is negative: a sorts strictly before b
\* ((a.volume / a.cost) - (b.volume / b.cost) < 0)
ShipCartonBefore(a, b) == a.volume * b.cost < b.volume * a.cost

RECURSIVE ShipInsertCarton(_, _)
ShipInsertCarton(sorted, x) ==
    IF sorted = <<>> THEN <<x>>
    ELSE IF ShipCartonBefore(x, Head(sorted)) THEN <<x>> \o sorted
    ELSE <<Head(sorted)>> \o ShipInsertCarton(Tail(sorted), x)

\* cartons.sort(comparator)
RECURSIVE ShipSortCartons(_)
ShipSortCartons(s) ==
    IF s = <<>> THEN <<>>
    ELSE ShipInsertCarton(ShipSortCartons(SubSeq(s, 1, Len(s) - 1)), s[Len(s)])

\* the three orientations tried, i from 0
ShipOrientations(productDims) ==
    << <<productDims.length, productDims.breadth, productDims.height>>,
       <<productDims.breadth, productDims.height, productDims.length>>,
       <<productDims.height, productDims.length, productDims.breadth>> >>

\* Math.min(itemsFit, maxByWeight, remainingQuantity, carton.availableQuantity)
ShipActualFit(itemsFit, maxByWeight, remaining, availableQuantity) ==
    Min2(Min2(itemsFit, maxByWeight), Min2(remaining, availableQuantity))

\* the option of carton k (position in the sorted array) in orientation i,
\* None when nothing fits; efficiency is the fraction effNum / effDen
ShipOption(cs, k, i, productDims, weightPerProduct, remaining) ==
    LET carton == cs[k]
        o == ShipOrientations(productDims)[i + 1]
        fitL == carton.length \div o[1]
        fitB == carton.breadth \div o[2]
        fitH == carton.height \div o[3]
        itemsFit == fitL * fitB * fitH
        actualFit == ShipActualFit(itemsFit, carton.weightLimit \div weightPerProduct,
                                   remaining, carton.availableQuantity)
    IN  IF itemsFit > 0 /\ actualFit > 0
        THEN [carton |-> k, orientation |-> i, fitL |-> fitL, fitB |-> fitB, fitH |-> fitH,
              itemsFit |-> actualFit,
              effNum |-> actualFit * productDims.volume,
              effDen |-> carton.volume * carton.cost,
              totalWeight |-> actualFit * weightPerProduct,
              cost |-> carton.cost]
        ELSE None

\* if (efficiency > bestEfficiency), bestEfficiency being 0 while bestOption is null
ShipBetter(bestOption, option) ==
    IF IsNone(option) THEN bestOption
    ELSE IF IsNone(bestOption) THEN option
    ELSE IF option.effNum * bestOption.effDen > bestOption.effNum * option.effDen THEN option
    ELSE bestOption

\* the for loop over the cartons, from carton k and orientation i on
RECURSIVE ShipScan(_, _, _, _, _, _, _, _)
ShipScan(cs, used, k, i, productDims, weightPerProduct, remaining, bestOption) ==
    IF k > Len(cs) THEN bestOption
    ELSE IF used[k] \/ cs[k].availableQuantity <= 0
    THEN ShipScan(cs, used, k + 1, 0, productDims, weightPerProduct, remaining, bestOption)
    ELSE IF i > 2
    THEN ShipScan(cs, used, k + 1, 0, productDims, weightPerProduct, remaining, bestOption)
    ELSE ShipScan(cs, used, k, i + 1, productDims, weightPerProduct, remaining,
                  ShipBetter(bestOption,
                             ShipOption(cs, k, i, productDims, weightPerProduct, remaining)))

ShipInit ==
    /\ request = [products |-> <<>>, cartons |-> <<>>, algorithm |-> "hybrid"]
    /\ products = <<>>
    /\ cartons = <<>>
    /\ heap = <<>>
    /\ pc = "off"
    /\ workingCartons = <<>>
    /\ pIdx = 0
    /\ remainingQuantity = 0
    /\ productResults = <<>>
    /\ allResults = <<>>
    /\ unpackedProducts = <<>>
    /\ packingResults = <<>>
    /\ mIdx = 0
    /\ result = None
    /\ algoQueue = <<>>
    /\ bestResult = None
    /\ bestScore = None
    /\ fallback = FALSE
    /\ algo = "none"
    /\ sortedProducts = <<>>
    /\ sortedCartons = <<>>
    /\ sIdx = 0
    /\ sRemaining = 0
    /\ results = <<>>
    /\ entryAvail = <<>>
    /\ runs = <<>>
    /\ now = 0
    /\ previous = None
    /\ shipInput \in ShipInputs
    /\ shipPc = "idle"
    /\ shipCartons = <<>>
    /\ shipRemaining = 0
    /\ shipResults = <<>>
    /\ usedCartons = {}
    /\ shipResult = None

engineVars == <<inputVars, heap, pc, callVars, hybridVars, stratVars, entryAvail, runs, envVars>>

\* entry of calculateOptimalPacking, up to the while loop
ShipCall ==
    /\ shipPc = "idle"
    /\ shipCartons' = ShipSortCartons(shipInput.cartons)
    /\ shipResults' = <<>>
    /\ shipRemaining' = shipInput.quantity
    /\ usedCartons' = {}
    /\ shipPc' = "loop"
    /\ UNCHANGED <<engineVars, shipInput, shipResult>>

\* the rest of an iteration of the while loop: break, or the placement of bestOption
ShipTake(bestOption) ==
    IF IsNone(bestOption)
    THEN /\ shipPc' = "summary"
         /\ UNCHANGED <<shipResults, shipRemaining, usedCartons, shipCartons>>
    ELSE /\ shipResults' = Append(shipResults,
                              [cartonId |-> shipCartons[bestOption.carton].id,
                               orientation |-> bestOption.orientation,
                               itemsPacked |-> bestOption.itemsFit,
                               arrangement |-> [lengthwise |-> bestOption.fitL,
                                                breadthwise |-> bestOption.fitB,
                                                heightwise |-> bestOption.fitH],
                               cost |-> bestOption.cost])
         /\ shipRemaining' = shipRemaining - bestOption.itemsFit
         /\ usedCartons' = usedCartons \cup {shipCartons[bestOption.carton].id}
         /\ shipCartons' = [shipCartons EXCEPT ![bestOption.carton].availableQuantity = @ - 1]
         /\ UNCHANGED shipPc

\* one evaluation of the while loop
ShipStep ==
    /\ shipPc = "loop"
    /\ IF shipRemaining > 0
       THEN ShipTake(ShipScan(shipCartons,
                              [k \in 1..Len(shipCartons) |-> shipCartons[k].id \in usedCartons],
                              1, 0, shipInput.productDims, shipInput.weightPerProduct,
                              shipRemaining, None))
       ELSE /\ shipPc' = "summary"
            /\ UNCHANGED <<shipResults, shipRemaining, usedCartons, shipCartons>>
    /\ UNCHANGED <<engineVars, shipInput, shipResult>>

\* the summary and the return value
ShipReturn ==
    /\ shipPc = "summary"
    /\ shipResult' = [success |-> shipRemaining = 0,
                      packingResults |-> shipResults,
                      remainingQuantity |-> shipRemaining,
                      summary |-> [totalItemsPacked |-> shipInput.quantity - shipRemaining,
                                   totalCartonsUsed |-> Len(shipResults)]]
    /\ shipPc' = "done"
    /\ UNCHANGED <<engineVars, shipInput, shipCartons, shipRemaining, shipResults, usedCartons>>

ShipNext ==
    \/ ShipCall
    \/ ShipStep
    \/ ShipReturn

ShipSpec == ShipInit /\ [][ShipNext]_vars

----------------------------------------------------------------------------
(* Properties                                                              *)

\* items of product id in the placements of a list of placement records
RECURSIVE PackedIn(_, _)
PackedIn(records, id) ==
    IF records = <<>> THEN 0
    ELSE (IF Head(records).productId = id THEN Head(records).itemsPacked ELSE 0)
         + PackedIn(Tail(records), id)

\* remainder reported for product id in a list of unpacked entries
RECURSIVE RemainderIn(_, _)
RemainderIn(entries, id) ==
    IF entries = <<>> THEN 0
    ELSE (IF Head(entries).productId = id THEN Head(entries).remainingQuantity ELSE 0)
         + RemainderIn(Tail(entries), id)

\* number of placement records that use the carton type with the given id
PlacementsUsing(records, id) ==
    Cardinality({k \in 1..Len(records) : records[k].cartonId = id})

\* the placements a strategy has produced so far and the ones packItems returned
StrategyPlacements ==
    {results[k] : k \in 1..Len(results)} \cup {packingResults[k] : k \in 1..Len(packingResults)}

\* C1 (conservation): when calculateOptimalPacking returns, the items packed
\* plus the remainders reported equal the items requested, in total and for
\* each product, and no product is packed beyond its quantity.
C1_Conservation ==
    pc = "done" =>
        /\ SumSeq([k \in 1..Len(result.packingResults) |-> result.packingResults[k].itemsPacked])
             + SumSeq([k \in 1..Len(result.unpackedProducts) |-> result.unpackedProducts[k].remainingQuantity])
           = SumSeq([k \in 1..Len(request.products) |-> request.products[k].quantity])
        /\ \A k \in 1..Len(request.products) :
             /\ PackedIn(result.packingResults, k) + RemainderIn(result.unpackedProducts, k)
                = request.products[k].quantity
             /\ PackedIn(result.packingResults, k) <= request.products[k].quantity

\* a two-product call has returned with one product packed entirely and the
\* other packed in part, its remainder reported
C1_Witness ==
    /\ pc = "done"
    /\ Len(request.products) = 2
    /\ \E k \in 1..2 :
         /\ PackedIn(result.packingResults, k) > 0
         /\ RemainderIn(result.unpackedProducts, k) > 0
    /\ \E k \in 1..2 :
         /\ PackedIn(result.packingResults, k) = request.products[k].quantity
         /\ RemainderIn(result.unpackedProducts, k) = 0

\* C2 (hybrid independence): in hybrid mode each strategy starts from the
\* carton availability the hybrid call started with, whatever the strategies
\* run before it consumed.
C2_HybridIndependence ==
    (StrategyOf(request.algorithm) = "hybrid" /\ pc = "packItems" /\ algoQueue # <<>>)
        => AvailOf(workingCartons, heap) = entryAvail

\* C3 (one carton instance per placement): with a single-strategy selector
\* the working availableQuantity never becomes negative, and when the call
\* returns it equals the initial working availableQuantity minus the number
\* of placements that use the carton type.
C3_OneInstancePerPlacement ==
    request.algorithm \in {"ffd", "bfd", "guillotine"} =>
        /\ \A k \in 1..Len(workingCartons) : heap[workingCartons[k]].availableQuantity >= 0
        /\ pc = "done" =>
             \A k \in 1..Len(workingCartons) :
                heap[workingCartons[k]].availableQuantity
                  = OrOne(request.cartons[k].availableQuantity) - PlacementsUsing(result.packingResults, k)

\* C4 (unpacked only when infeasible): when a product is reported unpacked,
\* no carton type with physical stock left (input availableQuantity minus the
\* placements of the result that use it) takes an item of it.
C4_UnpackedOnlyWhenInfeasible ==
    pc = "done" =>
        \A u \in 1..Len(result.unpackedProducts) :
            \A k \in 1..Len(request.cartons) :
                ~ /\ request.cartons[k].availableQuantity - PlacementsUsing(result.packingResults, k) >= 1
                  /\ ~IsNone(packProductInCarton(request.products[result.unpackedProducts[u].productId],
                                                 k, request.cartons[k],
                                                 result.unpackedProducts[u].remainingQuantity))

\* C5 (inputs never mutated): the caller's carton objects and product objects
\* keep the values they were passed with, and every call starts from the
\* availability of the input.
C5_InputsNeverMutated ==
    /\ products = request.products
    /\ \A k \in 1..Len(cartons) : heap[cartons[k]] = request.cartons[k]
    /\ (pc = "product" /\ pIdx = 1) =>
          AvailOf(workingCartons, heap)
            = [k \in 1..Len(request.cartons) |-> OrOne(request.cartons[k].availableQuantity)]

\* a call has returned placements, the working copy of a carton was
\* decremented and the caller's object was not
C5_Witness ==
    /\ pc = "done"
    /\ Len(result.packingResults) >= 1
    /\ \E k \in 1..Len(cartons) :
         /\ heap[workingCartons[k]].availableQuantity < request.cartons[k].availableQuantity
         /\ heap[cartons[k]].availableQuantity = request.cartons[k].availableQuantity

\* C6 (stock never exceeded): in the result no carton type is used by more
\* placements than its input availableQuantity; with one carton type of
\* availableQuantity 1 and one product that does not fit one carton, there is
\* exactly one placement, a non-empty unpackedProducts and packingSuccess false.
C6_StockNeverExceeded ==
    pc = "done" =>
        /\ \A k \in 1..Len(request.cartons) :
             PlacementsUsing(result.packingResults, k) <= request.cartons[k].availableQuantity
        /\ ( /\ Len(request.cartons) = 1
             /\ request.cartons[1].availableQuantity = 1
             /\ Len(request.products) = 1
             /\ ~IsNone(packProductInCarton(request.products[1], 1, request.cartons[1],
                                            request.products[1].quantity))
             /\ packProductInCarton(request.products[1], 1, request.cartons[1],
                                    request.products[1].quantity).itemsPacked
                  < request.products[1].quantity )
           => /\ Len(result.packingResults) = 1
              /\ result.unpackedProducts # <<>>
              /\ ~result.summary.packingSuccess

\* C7 (weight bound): itemsPacked times the unit weight of the product is at
\* most maxWeight of the carton, for every placement of every strategy and
\* every placement of the result.
C7_WeightBound ==
    /\ \A r \in StrategyPlacements :
         r.itemsPacked * r.product.weight <= heap[r.carton].maxWeight
    /\ \A k \in 1..Len(allResults) :
         allResults[k].itemsPacked * products[allResults[k].productId].weight
           <= allResults[k].cartonDetails.maxWeight

\* a placement filled up to the weight limit of the carton while items of the
\* product remained and the carton had room for another layer position
C7_Witness ==
    /\ pc = "done"
    /\ \E k \in 1..Len(result.packingResults) :
         LET r == result.packingResults[k]
             w == products[r.productId].weight
         IN  /\ (r.itemsPacked + 1) * w > r.cartonDetails.maxWeight
             /\ r.itemsPacked * w <= r.cartonDetails.maxWeight
             /\ r.itemsPacked < r.layout.itemsPerLayer * r.layout.layers
             /\ RemainderIn(result.unpackedProducts, r.productId) > 0

\* C8 (fragility cap): a placement of a fragile product has at most 3 layers,
\* in layout.layers and in stackingInfo.totalLayers.
C8_FragilityCap ==
    /\ \A r \in StrategyPlacements :
         r.product.isFragile => (r.layout.layers <= 3 /\ r.stackingInfo.totalLayers <= 3)
    /\ \A k \in 1..Len(allResults) :
         products[allResults[k].productId].isFragile
           => (allResults[k].layout.layers <= 3 /\ allResults[k].stackingInfo.totalLayers <= 3)

\* a fragile product is placed in 3 layers in a carton whose height allows 10,
\* whose maxStackLayers allows 10 and whose items bear more than 3 layers
C8_Witness ==
    \E r \in StrategyPlacements :
        /\ r.product.isFragile
        /\ r.layout.layers = 3
        /\ r.stackingInfo.totalLayers = 3
        /\ heap[r.carton].height \div r.orientation.dims[3] >= 10
        /\ heap[r.carton].maxStackLayers >= 10
        /\ r.product.maxStackWeight \div r.product.weight > 3

\* C9 (layer limit): the layers of a placement are at most each of
\* floor(carton.height / oriented height), floor(maxStackWeight / weight) and
\* carton.maxStackLayers; a product whose maxStackWeight is smaller than its
\* weight is never placed.
C9_LayerLimit ==
    \A r \in StrategyPlacements :
        /\ r.layout.layers <= heap[r.carton].height \div r.orientation.dims[3]
        /\ r.layout.layers <= r.product.maxStackWeight \div r.product.weight
        /\ r.layout.layers <= heap[r.carton].maxStackLayers
        /\ r.product.maxStackWeight >= r.product.weight

\* a call has returned in which one product was stacked up to maxStackLayers
\* of a carton whose height allows more, and a product whose maxStackWeight is
\* smaller than its weight was left unpacked entirely although it fits the
\* carton by its dimensions
C9_Witness ==
    /\ pc = "done"
    /\ \E k \in 1..Len(result.packingResults) :
          LET r == result.packingResults[k]
          IN  /\ r.layout.layers = request.cartons[r.cartonId].maxStackLayers
              /\ r.layout.layers > 1
    /\ \E u \in 1..Len(result.unpackedProducts) :
          LET p == request.products[result.unpackedProducts[u].productId]
          IN  /\ p.maxStackWeight < p.weight
              /\ result.unpackedProducts[u].remainingQuantity = p.quantity
              /\ \E k \in 1..Len(request.cartons) : canFitOrientation(p, request.cartons[k], 0)

\* quantity still remaining when the k-th placement of the running strategy was made
RemainingBefore(k) ==
    sortedProducts[sIdx].quantity - SumSeq([j \in 1..(k - 1) |-> results[j].itemsPacked])

\* C10 (fit formula): itemsPacked of a placement is the minimum of
\* itemsPerLength x itemsPerBreadth x maxLayers, floor(maxWeight / weight) and
\* the quantity remaining when it is made, and is at least 1; the product
\* 10x5x5 of weight 2 and quantity 20 with one 20x20x20 carton of maxWeight
\* 100 is packed by one placement of 20 items with no remainder.
C10_FitFormula ==
    /\ pc \in {"loop", "stratDone"} =>
         \A k \in 1..Len(results) :
            LET r == results[k]
                carton == heap[r.carton]
                itemsPerLength == carton.length \div r.orientation.dims[1]
                itemsPerBreadth == carton.breadth \div r.orientation.dims[2]
                byHeight == carton.height \div r.orientation.dims[3]
                byStackWeight == r.product.maxStackWeight \div r.product.weight
                byFragility == IF r.product.isFragile THEN Min2(3, byHeight) ELSE byHeight
                maxLayers == Min2(Min2(byHeight, byStackWeight), Min2(byFragility, carton.maxStackLayers))
            IN  /\ r.itemsPacked = Min2(Min2(itemsPerLength * itemsPerBreadth * maxLayers,
                                             carton.maxWeight \div r.product.weight),
                                        RemainingBefore(k))
                /\ r.itemsPacked >= 1
    /\ ( /\ pc = "done"
         /\ Len(request.products) = 1
         /\ Len(request.cartons) = 1
         /\ <<request.products[1].length, request.products[1].breadth, request.products[1].height>> = <<10, 5, 5>>
         /\ request.products[1].weight = 2
         /\ request.products[1].quantity = 20
         /\ <<request.cartons[1].length, request.cartons[1].breadth, request.cartons[1].height>> = <<20, 20, 20>>
         /\ request.cartons[1].maxWeight = 100 )
       => /\ Len(result.packingResults) = 1
          /\ result.packingResults[1].itemsPacked = 20
          /\ result.unpackedProducts = <<>>
          /\ result.remainingQuantity = 0

\* a strategy has made a second placement of a product, bounded by what was
\* left after the first, the first having been bounded by the volume of the carton
C10_Witness ==
    /\ pc = "stratDone"
    /\ Len(results) >= 2
    /\ results[2].itemsPacked = RemainingBefore(2)
    /\ results[1].itemsPacked < RemainingBefore(1)
    /\ results[1].itemsPacked < heap[results[1].carton].maxWeight \div results[1].product.weight

\* C11 (rotation lock): a placement of a product with canRotate = false has
\* orientationIndex 0 and the dimensions (length, breadth, height) unpermuted,
\* for the orientation and for every item laid out, and it uses a carton that
\* orientation 0 fits.
C11_RotationLock ==
    /\ \A r \in StrategyPlacements :
         ~r.product.canRotate =>
            /\ r.orientationIndex = 0
            /\ r.orientation.dims = <<r.product.length, r.product.breadth, r.product.height>>
            /\ \A i \in 1..Len(r.layout.packedItems) :
                   r.layout.packedItems[i].dimensions
                     = [length |-> r.product.length, breadth |-> r.product.breadth,
                        height |-> r.product.height]
            /\ r.product.length <= heap[r.carton].length
            /\ r.product.breadth <= heap[r.carton].breadth
            /\ r.product.height <= heap[r.carton].height
    /\ \A k \in 1..Len(allResults) :
         ~products[allResults[k].productId].canRotate =>
            /\ allResults[k].orientationIndex = 0
            /\ products[allResults[k].productId].length <= allResults[k].cartonDetails.length
            /\ products[allResults[k].productId].breadth <= allResults[k].cartonDetails.breadth
            /\ products[allResults[k].productId].height <= allResults[k].cartonDetails.height

\* a call has returned with a product that cannot rotate placed in
\* orientation 0 and a remainder of it unpacked, while a carton type was left
\* unused which orientation 0 does not fit and a rotated orientation would
C11_Witness ==
    /\ pc = "done"
    /\ \E k \in 1..Len(result.packingResults) :
         LET p == request.products[result.packingResults[k].productId]
         IN  /\ ~p.canRotate
             /\ result.packingResults[k].orientationIndex = 0
             /\ RemainderIn(result.unpackedProducts, p.id) > 0
             /\ \E c \in 1..Len(request.cartons) :
                  /\ PlacementsUsing(result.packingResults, c) = 0
                  /\ request.cartons[c].availableQuantity > 0
                  /\ ~canFitOrientation(p, request.cartons[c], 0)
                  /\ p.breadth <= request.cartons[c].length
                  /\ p.length <= request.cartons[c].breadth
                  /\ p.height <= request.cartons[c].height

\* C12 (product ordering): the placements of a result follow the products in
\* (priority descending, volume descending) order whatever the order of the
\* input list, and no product is left unpacked while a product of lower
\* priority listed before it holds a carton that takes an item of it.
C12_ProductOrdering ==
    pc = "done" =>
        /\ \A i, j \in 1..Len(result.packingResults) :
             i < j => ~ProductBefore(request.products[result.packingResults[j].productId],
                                     request.products[result.packingResults[i].productId])
        /\ \A u \in 1..Len(result.unpackedProducts) :
             \A k \in 1..Len(result.packingResults) :
                LET high == request.products[result.unpackedProducts[u].productId]
                    low == request.products[result.packingResults[k].productId]
                    c == result.packingResults[k].cartonId
                IN  ~ /\ low.id < high.id
                      /\ low.priority < high.priority
                      /\ ~IsNone(packProductInCarton(high, c, request.cartons[c],
                                                     result.unpackedProducts[u].remainingQuantity))

\* carton types a and b are identical in dimensions, maxWeight and shipping
\* cost, both are in stock, and a costs less than b
CheaperTwin(a, b) ==
    /\ a.length = b.length /\ a.breadth = b.breadth /\ a.height = b.height
    /\ a.maxWeight = b.maxWeight
    /\ a.shippingCost = b.shippingCost
    /\ a.availableQuantity >= 1 /\ b.availableQuantity >= 1
    /\ a.cost < b.cost

\* C13 (cost tie-break): with bfd and with guillotine, the first placement of
\* a result never uses a carton type of which the catalog holds a cheaper
\* twin in stock, whichever of the two comes first in the catalog.
C13_CostTieBreak ==
    ( /\ pc = "done"
      /\ request.algorithm \in {"bfd", "guillotine"}
      /\ Len(result.packingResults) >= 1 )
    => \A a, b \in 1..Len(request.cartons) :
          CheaperTwin(request.cartons[a], request.cartons[b])
             => result.packingResults[1].cartonId # b

\* fit count of a layout, 0 for no layout
ItemsOf(layout) == IF IsNone(layout) THEN 0 ELSE layout.itemsPacked

\* C14 (best orientation by items fit): no orientation of the product fits
\* strictly more items in the carton of a placement, for the quantity
\* remaining when the placement is made, than the placement holds.
C14_BestOrientationByItems ==
    pc \in {"loop", "stratDone"} =>
        \A k \in 1..Len(results) :
            \A i \in 1..Len(getAllOrientations(results[k].product)) :
                ItemsOf(calculateOptimal3DLayout(results[k].product, heap[results[k].carton],
                                                 getAllOrientations(results[k].product)[i],
                                                 RemainingBefore(k)))
                  <= results[k].itemsPacked

\* the engine runs on one thread and takes every step it can take: weak
\* fairness of every step.  A step of the strategy loop is enabled exactly
\* when pc = "loop", so its weak fairness is written out as "infinitely often
\* outside the loop or infinitely often a step of it"
FairSpec ==
    /\ Spec
    /\ WF_vars(Call \/ BeginProduct \/ StrategyEnter \/ StrategyReturn
                    \/ MergeResult \/ EndProduct \/ Summarize \/ Return)
    /\ ([]<>(pc # "loop") \/ []<><<StrategyStep>>_vars)

\* no carton in stock takes an item of the product the running strategy is at
NoFeasiblePlacement ==
    \A k \in 1..Len(workingCartons) :
        heap[workingCartons[k]].availableQuantity > 0
          => IsNone(packProductInCarton(sortedProducts[sIdx], workingCartons[k],
                                        heap[workingCartons[k]], sRemaining))

\* C15 (termination): an iteration of a strategy loop that stays in the loop
\* decreases the remaining quantity by at least 1 and takes one unit of one
\* carton type; an iteration that finds no feasible placement leaves the
\* loop; every strategy that was entered returns, and every call of packItems
\* (a single strategy or the hybrid orchestrator) returns its placements.
C15_Termination ==
    /\ [][ (pc = "loop" /\ pc' = "loop" /\ sIdx' = sIdx)
             => /\ sRemaining' <= sRemaining - 1
                /\ \E k \in 1..Len(workingCartons) :
                     /\ heap'[workingCartons[k]].availableQuantity
                          = heap[workingCartons[k]].availableQuantity - 1
                     /\ \A j \in 1..Len(workingCartons) :
                          j # k => heap'[workingCartons[j]] = heap[workingCartons[j]] ]_vars
    /\ [][ (pc = "loop" /\ NoFeasiblePlacement)
             => (results' = results /\ (pc' = "stratDone" \/ sIdx' = sIdx + 1)) ]_vars
    /\ (pc = "loop") ~> (pc = "stratDone")
    /\ (pc = "packItems") ~> (pc = "merge")

\* a strategy has left its loop after two placements with items of the
\* product remaining, no carton in stock taking one of them
C15_Witness ==
    /\ pc = "stratDone"
    /\ Len(results) >= 2
    /\ sRemaining > 0
    /\ NoFeasiblePlacement

\* quality score of a non-empty list of placements, in Scale units:
\* total items x 100 - total cost - (1 - average volume efficiency) x 50
QualityOf(placements) ==
    SumSeq([k \in 1..Len(placements) |-> placements[k].itemsPacked]) * 100 * Scale
      - SumSeq([k \in 1..Len(placements) |-> placements[k].cost])
      - (Scale - SumSeq([k \in 1..Len(placements) |-> placements[k].efficiency.volumeEfficiency])
                   \div Len(placements)) * 50

\* the runs of ffd, bfd, guillotine of a hybrid call that made a placement
ScoredRuns == {k \in 1..Min2(3, Len(runs)) : Len(runs[k].results) >= 1}

\* C16 (hybrid selection): what hybridPacking returns is the result of the
\* strategy of highest quality score among ffd, bfd, guillotine (run in this
\* order) that made a placement, the earliest of them when scores tie; when
\* none made a placement it is the empty result of the first-fit fallback.
C16_HybridSelection ==
    (StrategyOf(request.algorithm) = "hybrid" /\ pc = "merge") =>
        /\ Len(runs) >= 3
        /\ <<runs[1].algo, runs[2].algo, runs[3].algo>> = <<"ffd", "bfd", "guillotine">>
        /\ ScoredRuns # {} =>
             /\ Len(runs) = 3
             /\ \E w \in ScoredRuns :
                  /\ packingResults = runs[w].results
                  /\ \A j \in ScoredRuns :
                       /\ QualityOf(runs[j].results) <= QualityOf(runs[w].results)
                       /\ j < w => QualityOf(runs[j].results) < QualityOf(runs[w].results)
        /\ ScoredRuns = {} =>
             /\ Len(runs) = 4
             /\ runs[4].algo = "ffd"
             /\ packingResults = runs[4].results
             /\ packingResults = <<>>

\* hybridPacking returns the result of a strategy run after ffd, whose score
\* is higher than the score of the placements ffd made
C16_Witness ==
    /\ StrategyOf(request.algorithm) = "hybrid"
    /\ pc = "merge"
    /\ mIdx = 1
    /\ Len(runs) = 3
    /\ 1 \in ScoredRuns
    /\ \E w \in ScoredRuns :
         /\ w > 1
         /\ packingResults = runs[w].results
         /\ QualityOf(runs[w].results) > QualityOf(runs[1].results)

\* the request has products and no carton of the catalog takes an item of
\* any of them
TotalFailure ==
    /\ Len(request.products) > 0
    /\ \A p \in 1..Len(request.products) :
         \A c \in 1..Len(request.cartons) :
             IsNone(packProductInCarton(request.products[p], c, request.cartons[c],
                                        request.products[p].quantity))

\* C17 (total failure is a value): when no carton takes an item of any
\* product, the call returns a result with no placement, totalItemsPacked 0,
\* totalCartonsUsed 0, packingSuccess false and one unpackedProducts entry per
\* product, in the order of the request, carrying its full quantity.
C17_TotalFailureIsValue ==
    (pc = "done" /\ TotalFailure) =>
        /\ result.packingResults = <<>>
        /\ result.summary.totalItemsPacked = 0
        /\ result.summary.totalCartonsUsed = 0
        /\ result.summary.packingSuccess = FALSE
        /\ Len(result.unpackedProducts) = Len(request.products)
        /\ \A k \in 1..Len(request.products) :
             /\ result.unpackedProducts[k].productId = request.products[k].id
             /\ result.unpackedProducts[k].remainingQuantity = request.products[k].quantity

\* a call with two products, of which the catalog takes no item, has returned
\* with two unpackedProducts entries
C17_Witness ==
    /\ pc = "done"
    /\ TotalFailure
    /\ Len(request.products) = 2
    /\ Len(result.unpackedProducts) = 2

\* C18 (summary consistency): in every result packingSuccess is true exactly
\* when unpackedProducts is empty, exactly when totalItemsPacked equals
\* totalItemsRequested; the top-level remainingQuantity is the sum of the
\* remainders of unpackedProducts; every unpackedProducts entry has a
\* remainder above 0 and a reason; totalCartonsUsed is the number of placements.
C18_SummaryConsistency ==
    pc = "done" =>
        /\ result.summary.packingSuccess <=> (result.unpackedProducts = <<>>)
        /\ (result.unpackedProducts = <<>>)
             <=> (result.summary.totalItemsPacked = result.summary.totalItemsRequested)
        /\ result.remainingQuantity
             = SumSeq([k \in 1..Len(result.unpackedProducts) |->
                          result.unpackedProducts[k].remainingQuantity])
        /\ \A k \in 1..Len(result.unpackedProducts) :
             /\ result.unpackedProducts[k].remainingQuantity > 0
             /\ result.unpackedProducts[k].reason # ""
        /\ result.summary.totalCartonsUsed = Len(result.packingResults)

\* a call has returned three placements or more, with packingSuccess false
\* and items of one product remaining
C18_Witness ==
    /\ pc = "done"
    /\ result.summary.totalCartonsUsed >= 3
    /\ ~result.summary.packingSuccess
    /\ Len(result.unpackedProducts) = 1
    /\ result.remainingQuantity > 0

\* C19 (determinism): a call with the inputs of an earlier call returns the
\* value the earlier call returned, field for field, placement records and
\* metadata included.
C19_Determinism ==
    (pc = "done" /\ ~IsNone(previous)) => result = previous

\* C20 (efficiency range): volumeEfficiency, spaceUtilization and
\* weightUtilization of every placement of a result, and packingRate and
\* overallVolumeEfficiency of its summary, lie between 0 and 100 percent
\* (0 and 1000 tenths of a percent).
C20_EfficiencyRange ==
    pc = "done" =>
        /\ \A k \in 1..Len(result.packingResults) :
             /\ result.packingResults[k].efficiency.volumeEfficiency \in 0..1000
             /\ result.packingResults[k].efficiency.spaceUtilization \in 0..1000
             /\ result.packingResults[k].efficiency.weightUtilization \in 0..1000
        /\ result.summary.packingRate \in 0..1000
        /\ result.summary.overallVolumeEfficiency \in 0..1000

\* the runs of ffd, bfd, guillotine of a hybrid call that returned (raised
\* no error) and made a placement
CompletedRuns == {k \in 1..Min2(3, Len(runs)) : ~runs[k].threw /\ Len(runs[k].results) >= 1}

\* C21 (strategy failure is isolated): an error raised by ffd, bfd or
\* guillotine in a hybrid run does not leave hybridPacking; the three
\* strategies are all run, in order, whichever of them raised an error, and
\* what hybridPacking returns is the result of the strategy of highest quality
\* score among those that returned and made a placement (the earliest on a
\* tie), or the result of the first-fit fallback when there is none.
C21_StrategyFailureIsolated ==
    /\ []( (StrategyOf(request.algorithm) = "hybrid" /\ pc = "merge") =>
             /\ Len(runs) >= 3
             /\ <<runs[1].algo, runs[2].algo, runs[3].algo>> = <<"ffd", "bfd", "guillotine">>
             /\ CompletedRuns # {} =>
                  /\ Len(runs) = 3
                  /\ \E w \in CompletedRuns :
                       /\ packingResults = runs[w].results
                       /\ \A j \in CompletedRuns :
                            /\ QualityOf(runs[j].results) <= QualityOf(runs[w].results)
                            /\ j < w => QualityOf(runs[j].results) < QualityOf(runs[w].results)
             /\ CompletedRuns = {} =>
                  /\ Len(runs) = 4
                  /\ runs[4].algo = "ffd"
                  /\ ~runs[4].threw
                  /\ packingResults = runs[4].results )
    /\ [][ (StrategyOf(request.algorithm) = "hybrid" /\ ~fallback) => pc' # "thrown" ]_vars

\* a hybrid run in which ffd raised an error after making a placement has
\* returned the placements of a later strategy
C21_Witness ==
    /\ StrategyOf(request.algorithm) = "hybrid"
    /\ pc = "merge"
    /\ mIdx = 1
    /\ Len(runs) = 3
    /\ runs[1].threw
    /\ Len(runs[1].results) >= 1
    /\ \E w \in CompletedRuns : packingResults = runs[w].results

\* C22 (orientation enumeration): for a rotatable product getAllOrientations
\* returns 6 orientations with indices 0..5 in the order (L,B,H), (L,H,B),
\* (B,L,H), (B,H,L), (H,L,B), (H,B,L), the product of the three dimensions of
\* each being the volume of the product; and the dimensions recorded on every
\* item laid out are the dims of the orientation of its index.
C22_OrientationEnumeration ==
    /\ \A k \in 1..Len(request.products) :
         LET p == request.products[k]
             o == getAllOrientations(p)
         IN  p.canRotate =>
               /\ Len(o) = 6
               /\ \A i \in 1..6 :
                    /\ o[i].index = i - 1
                    /\ o[i].dims[1] * o[i].dims[2] * o[i].dims[3] = ProductVolume(p)
               /\ [i \in 1..6 |-> o[i].dims]
                    = << <<p.length, p.breadth, p.height>>, <<p.length, p.height, p.breadth>>,
                         <<p.breadth, p.length, p.height>>, <<p.breadth, p.height, p.length>>,
                         <<p.height, p.length, p.breadth>>, <<p.height, p.breadth, p.length>> >>
    /\ \A r \in StrategyPlacements :
         /\ r.orientation.index = r.orientationIndex
         /\ r.orientationIndex + 1 \in 1..Len(getAllOrientations(r.product))
         /\ r.orientation = getAllOrientations(r.product)[r.orientationIndex + 1]
         /\ \A i \in 1..Len(r.layout.packedItems) :
              LET item == r.layout.packedItems[i]
              IN  /\ item.orientation = r.orientationIndex
                  /\ <<item.dimensions.length, item.dimensions.breadth, item.dimensions.height>>
                       = r.orientation.dims
                  /\ item.dimensions.length * item.dimensions.breadth * item.dimensions.height
                       = ProductVolume(r.product)

\* a strategy has placed items of a product of three different dimensions in
\* an orientation other than (L,B,H), (L,H,B) and (B,L,H)
C22_Witness ==
    \E r \in StrategyPlacements :
        /\ r.product.canRotate
        /\ r.orientationIndex >= 3
        /\ Cardinality({r.product.length, r.product.breadth, r.product.height}) = 3
        /\ Len(r.layout.packedItems) >= 2

\* every object the engine works on has positive dimensions, weight (or
\* maxWeight) and quantity
EngineInputPositive ==
    /\ \A k \in 1..Len(products) :
         /\ products[k].length > 0 /\ products[k].breadth > 0 /\ products[k].height > 0
         /\ products[k].weight > 0 /\ products[k].quantity > 0
         /\ ProductVolume(products[k]) > 0
    /\ \A r \in DOMAIN heap :
         /\ heap[r].length > 0 /\ heap[r].breadth > 0 /\ heap[r].height > 0
         /\ heap[r].maxWeight > 0
         /\ CartonVolume(heap[r]) > 0

\* C23 (degenerate input is rejected): a body with a product or a carton of a
\* zero or negative dimension, weight, maxWeight or quantity is answered with
\* an error and reaches no placement; the engine works on positive values
\* only, and the requested total it divides by is positive.
C23_DegenerateRejected ==
    /\ pc = "rejected" => allResults = <<>> /\ results = <<>> /\ IsNone(result)
    /\ pc \notin {"received", "rejected"} =>
         /\ \A i \in 1..Len(request.products) : ~ProductConstructorThrows(request.products[i])
         /\ \A i \in 1..Len(request.cartons) : ~CartonConstructorThrows(request.cartons[i])
         /\ EngineInputPositive
    /\ pc = "done" => result.summary.totalItemsRequested > 0

\* the carton object c is in stock and takes at least one item of the product
FitsNow(product, c, remaining) ==
    /\ heap[c].availableQuantity > 0
    /\ ~IsNone(packProductInCarton(product, c, heap[c], remaining))

\* the references refs are in descending order of calculateCartonScore, the
\* order of the working array kept among equal scores
RankedByScore(refs) ==
    /\ Len(refs) = Len(workingCartons)
    /\ {refs[k] : k \in 1..Len(refs)} = {workingCartons[k] : k \in 1..Len(workingCartons)}
    /\ \A i, j \in 1..Len(refs) :
         i < j =>
            /\ ~ScoreGreater(calculateCartonScore(heap[refs[j]]), calculateCartonScore(heap[refs[i]]))
            /\ calculateCartonScore(heap[refs[j]])[1] * calculateCartonScore(heap[refs[i]])[2]
                 = calculateCartonScore(heap[refs[i]])[1] * calculateCartonScore(heap[refs[j]])[2]
               => refs[i] < refs[j]

\* C24 (first fit in rank order): firstFitDecreasing ranks the cartons once, on
\* entry, by calculateCartonScore; each placement it makes uses the
\* highest-ranked carton that is in stock and takes at least one item of the
\* product, every carton ranked above it being out of stock or taking none.
C24_FirstFitRankOrder ==
    /\ [][ (pc = "packItems" /\ algo' = "ffd") => RankedByScore(sortedCartons') ]_vars
    /\ [][ (pc = "loop" /\ algo = "ffd") => sortedCartons' = sortedCartons ]_vars
    /\ [][ (pc = "loop" /\ algo = "ffd" /\ Len(results') = Len(results) + 1) =>
             LET bestFit == results'[Len(results')]
             IN  \E k \in 1..Len(sortedCartons) :
                    /\ sortedCartons[k] = bestFit.carton
                    /\ FitsNow(sortedProducts[sIdx], sortedCartons[k], sRemaining)
                    /\ bestFit.itemsPacked > 0
                    /\ \A j \in 1..(k - 1) :
                         ~FitsNow(sortedProducts[sIdx], sortedCartons[j], sRemaining) ]_vars

\* firstFitDecreasing, which ranked the second carton of the catalog first,
\* has placed items in the carton ranked first and then, that one being out
\* of stock, in the carton ranked second
C24_Witness ==
    /\ pc = "loop"
    /\ algo = "ffd"
    /\ Len(sortedCartons) = 2
    /\ sortedCartons[1] = workingCartons[2]
    /\ Len(results) >= 2
    /\ results[1].carton = sortedCartons[1]
    /\ results[Len(results)].carton = sortedCartons[2]
    /\ heap[sortedCartons[1]].availableQuantity <= 0

\* number of items of a layout that lie in layer n (stackLevel n)
ItemsInLayer(layout, n) ==
    Cardinality({i \in 1..Len(layout.packedItems) : layout.packedItems[i].stackLevel = n})

\* C25 (layout validity): in every placement the list of items has
\* itemsPacked entries; the box of every item (position plus oriented
\* dimensions) lies inside the carton; no two items have the same position;
\* the items come layer by layer from the bottom, a layer above another holding
\* an item only if the one below holds itemsPerLayer items; and layout.layers
\* = ceil(itemsPacked / itemsPerLayer) = stackingInfo.totalLayers.
C25_LayoutValidity ==
    \A r \in StrategyPlacements :
        LET items == r.layout.packedItems
            carton == heap[r.carton]
        IN  /\ Len(items) = r.itemsPacked
            /\ r.layout.itemsPacked = r.itemsPacked
            /\ \A i \in 1..Len(items) :
                 /\ items[i].position.x >= 0
                 /\ items[i].position.y >= 0
                 /\ items[i].position.z >= 0
                 /\ items[i].position.x + items[i].dimensions.length <= carton.length
                 /\ items[i].position.y + items[i].dimensions.breadth <= carton.breadth
                 /\ items[i].position.z + items[i].dimensions.height <= carton.height
                 /\ items[i].position.z = (items[i].stackLevel - 1) * items[i].dimensions.height
            /\ Cardinality({items[i].position : i \in 1..Len(items)}) = Len(items)
            /\ \A i \in 1..(Len(items) - 1) : items[i].stackLevel <= items[i + 1].stackLevel
            /\ items[1].stackLevel = 1
            /\ \A n \in 1..r.layout.layers :
                 /\ ItemsInLayer(r.layout, n) >= 1
                 /\ ItemsInLayer(r.layout, n) <= r.layout.itemsPerLayer
                 /\ n < r.layout.layers => ItemsInLayer(r.layout, n) = r.layout.itemsPerLayer
            /\ r.layout.layers * r.layout.itemsPerLayer >= r.itemsPacked
            /\ (r.layout.layers - 1) * r.layout.itemsPerLayer < r.itemsPacked
            /\ r.layout.layers = r.stackingInfo.totalLayers
            /\ r.layout.layers = r.layout.stackingInfo.totalLayers

\* a strategy has made a placement of three layers or more, of several items
\* each, the topmost not full
C25_Witness ==
    \E r \in StrategyPlacements :
        /\ r.layout.layers >= 3
        /\ r.layout.itemsPerLayer >= 4
        /\ ItemsInLayer(r.layout, r.layout.layers) < r.layout.itemsPerLayer
        /\ ItemsInLayer(r.layout, 1) = r.layout.itemsPerLayer

\* C26 (exhausted cartons are skipped): no placement of a result uses a
\* carton type that was supplied with availableQuantity 0.
C26_ExhaustedCartonsSkipped ==
    pc = "done" =>
        \A k \in 1..Len(result.packingResults) :
            request.cartons[result.packingResults[k].cartonId].availableQuantity # 0

\* C27 (packing order index): in every result the placement at position k of
\* packingResults has packingOrder k, so the values are 1, 2, ..., N and no
\* two placements share one.
C27_PackingOrderIndex ==
    pc = "done" =>
        \A k \in 1..Len(result.packingResults) : result.packingResults[k].packingOrder = k

\* C28 (carton-type breakdown accounting): in every result the counts of
\* cartonTypeBreakdown add up to totalCartonsUsed and its totalItems to
\* totalItemsPacked; every placement is counted in exactly one entry, the one
\* whose key is made of the dimensions of its carton.
C28_BreakdownAccounting ==
    pc = "done" =>
        LET breakdown == result.summary.cartonTypeBreakdown
            placements == result.packingResults
            Of(i) == {k \in 1..Len(placements) :
                        CartonTypeKey(placements[k].cartonDetails) = breakdown[i].cartonType}
        IN  /\ SumSeq([i \in 1..Len(breakdown) |-> breakdown[i].count])
                 = result.summary.totalCartonsUsed
            /\ SumSeq([i \in 1..Len(breakdown) |-> breakdown[i].totalItems])
                 = result.summary.totalItemsPacked
            /\ \A k \in 1..Len(placements) :
                 Cardinality({i \in 1..Len(breakdown) : k \in Of(i)}) = 1
            /\ \A i \in 1..Len(breakdown) :
                 /\ breakdown[i].count = Cardinality(Of(i))
                 /\ breakdown[i].count >= 1
                 /\ breakdown[i].totalItems
                      = SumSeq([k \in 1..Len(placements) |->
                                   IF k \in Of(i) THEN placements[k].itemsPacked ELSE 0])

\* a call has returned placements in two carton types of the same
\* dimensions, counted in one entry of the breakdown
C28_Witness ==
    /\ pc = "done"
    /\ Len(result.summary.cartonTypeBreakdown) = 1
    /\ result.summary.cartonTypeBreakdown[1].count >= 2
    /\ \E j, k \in 1..Len(result.packingResults) :
         result.packingResults[j].cartonId # result.packingResults[k].cartonId

\* positions of the CAPACITY_SHORTAGE entries in a list of recommendations
ShortageEntries(recommendations) ==
    {i \in 1..Len(recommendations) : recommendations[i].type = "CAPACITY_SHORTAGE"}

\* C29 (capacity-shortage recommendation): the recommendations of a result
\* hold a CAPACITY_SHORTAGE entry exactly when unpackedProducts is not empty,
\* which is exactly when packingSuccess is false; the entry lists the
\* unpacked products, all of them; a result with no placement has its
\* recommendations like any other.
C29_CapacityShortage ==
    pc = "done" =>
        LET recommendations == result.analytics.recommendations
            shortage == ShortageEntries(recommendations)
        IN  /\ (shortage # {}) <=> (Len(result.unpackedProducts) > 0)
            /\ (shortage # {}) <=> ~result.summary.packingSuccess
            /\ Cardinality(shortage) <= 1
            /\ \A i \in shortage :
                 recommendations[i].unpackedProducts = result.unpackedProducts
            /\ Len(result.packingResults) = 0 =>
                 \A i \in 1..Len(recommendations) : recommendations[i].type = "CAPACITY_SHORTAGE"

\* a call has returned with no placement and a CAPACITY_SHORTAGE entry that
\* lists two unpacked products
C29_Witness ==
    /\ pc = "done"
    /\ Len(result.packingResults) = 0
    /\ Len(result.unpackedProducts) = 2
    /\ ShortageEntries(result.analytics.recommendations) = {1}

\* the carton at position k of the sorted array holds at least one item of
\* the product by dimensions (in one of the orientations tried) and by weight
ShipHoldsOne(k) ==
    /\ shipCartons[k].weightLimit >= shipInput.weightPerProduct
    /\ \E i \in 1..3 :
         LET o == ShipOrientations(shipInput.productDims)[i]
         IN  /\ o[1] <= shipCartons[k].length
             /\ o[2] <= shipCartons[k].breadth
             /\ o[3] <= shipCartons[k].height

\* C30 (shipping calculator: stock is used up): when calculateOptimalPacking
\* of shippingUtils returns with items left unpacked (remainingQuantity > 0,
\* success false), no carton type that still has availableQuantity >= 1 holds
\* an item of the product by dimensions and weight.
C30_ShipLeavesNoUsableStock ==
    (shipPc = "done" /\ shipResult.remainingQuantity > 0) =>
        /\ ~shipResult.success
        /\ \A k \in 1..Len(shipCartons) :
             shipCartons[k].availableQuantity >= 1 => ~ShipHoldsOne(k)
====
